---- MODULE Spec2Model ----
(***************************************************************************)
(* A model of spectr's decode -> analyze pipeline: the MP3 frame locator,  *)
(* the stream statistics reader, the raw audio materializer and the        *)
(* windowed copy.  Files and PCM buffers are sequences of bytes (0..255),  *)
(* indexed from 0 as in the C code (ByteAt).  Error returns are the        *)
(* negative errno values the C code returns.                               *)
(***************************************************************************)
EXTENDS Integers, Sequences, FiniteSets, TLC

VARIABLES
    file,       \* the bytes of the input file f
    io,         \* how the system calls on f behave: "ok" or the call that fails
    pc,         \* "start", or the name of the operation that has been called
    locRes,     \* what s_get_mp3_frame_header_offset returned and did
    ftypeRes,   \* what s_ftype returned
    statRes,    \* what s_audio_stat returned and the s_audio_stat_t it left
    codec,      \* what the external codec makes of f: its return value and PCM bytes
    charSigned, \* whether plain char is signed in this build
    raw,        \* the caller's s_raw_audio_t
    decRes,     \* what s_decode_raw_audio returned
    sampleRes,  \* what one call of s_process_next_sample returned and stored
    dst,        \* the destination handle of s_copy_raw_audio_window
    copyRes,    \* what s_copy_raw_audio_window returned, and its arguments
    mono,       \* the argument and the result of s_mono_sample
    win,        \* the arguments and the result of s_get_window_size
    fft,        \* the s_dft_t handle of s_fft_part, its arguments and what it did
    stft,       \* the s_stft_t handle of s_stft, its arguments and what it did
    heap        \* the allocator: the live blocks and what was done to them

vars == <<file, io, pc, locRes, ftypeRes, statRes,
          codec, charSigned, raw, decRes, sampleRes, dst, copyRes,
          mono, win, fft, stft, heap>>

fileVars == <<file, io, codec, charSigned>>

xformVars == <<mono, win, fft, stft, heap>>

decodeVars ==
    <<file, io, codec, charSigned, locRes, ftypeRes, statRes, decRes, sampleRes,
      dst, copyRes>>

(***************************************************************************)
(* Bounds of the model.                                                    *)
(***************************************************************************)
MaxFileLen == 14
MaxPcmLen == 9
MaxSamples == 3

(***************************************************************************)
(* errno values (<errno.h>), returned negated.                             *)
(***************************************************************************)
ENOENT == 2
EIO == 5
ENOMEM == 12
EINVAL == 22

(***************************************************************************)
(* Byte access.  Reading at or past the end of the buffer is undefined     *)
(* behaviour: it yields j, a byte the caller of the model picks freely.    *)
(***************************************************************************)
ByteAt(buf, i, j) == IF i < Len(buf) THEN buf[i + 1] ELSE j

\* util/bitwise.c: four bytes, the low 7 bits of each, most significant first.
s_from_synchsafe_int32(buf, o, j) ==
      (ByteAt(buf, o + 0, j) % 128) * 2097152
    + (ByteAt(buf, o + 1, j) % 128) * 16384
    + (ByteAt(buf, o + 2, j) % 128) * 128
    + (ByteAt(buf, o + 3, j) % 128)

\* A header test that looks at the sync byte only.
s_is_mp3_frame_header_sync_only(buf, off, j) == ByteAt(buf, off, j) = 255

\* quirks/mp3.c: 0xFF followed by 0xFB or 0xFA.
s_is_mp3_frame_header(buf, off, j) ==
    (ByteAt(buf, off, j) = 255) /\
        ((ByteAt(buf, off + 1, j) = 251) \/ (ByteAt(buf, off + 1, j) = 250))

\* The indices s_is_mp3_frame_header reads (&& and || short-circuit).
HeaderReads(buf, off, j) ==
    {off} \cup (IF ByteAt(buf, off, j) = 255 THEN {off + 1} ELSE {})

(***************************************************************************)
(* The linear scan of s_get_mp3_frame_header_offset:                       *)
(*     for(i = 0; i < (size_t) (stat.st_size - 1); ++i)                    *)
(*         if(s_is_mp3_frame_header(file, i)) { off = i; break; }          *)
(* ScanLoop is the value of off after the loop has run from i on.          *)
(***************************************************************************)
\* The loop without its break: off ends at the last header, not the first.
RECURSIVE ScanLoopNoBreak(_, _, _, _)
ScanLoopNoBreak(buf, i, off, j) ==
    IF i < Len(buf) - 1
    THEN ScanLoopNoBreak(buf, i + 1,
                         IF s_is_mp3_frame_header(buf, i, j) THEN i ELSE off, j)
    ELSE off

\* The loop stopping one offset early: i < st_size - 2.
RECURSIVE ScanLoopShort(_, _, _, _)
ScanLoopShort(buf, i, off, j) ==
    IF i < Len(buf) - 2
    THEN IF s_is_mp3_frame_header(buf, i, j)
         THEN i
         ELSE ScanLoopShort(buf, i + 1, off, j)
    ELSE off

RECURSIVE ScanLoop(_, _, _, _)
ScanLoop(buf, i, off, j) ==
    IF i < Len(buf) - 1
    THEN IF s_is_mp3_frame_header(buf, i, j)
         THEN i
         ELSE ScanLoop(buf, i + 1, off, j)
    ELSE off

\* The indices the loop reads when it runs from i on.
RECURSIVE ScanReads(_, _, _)
ScanReads(buf, i, j) ==
    IF i < Len(buf) - 1
    THEN HeaderReads(buf, i, j) \cup
         (IF s_is_mp3_frame_header(buf, i, j) THEN {} ELSE ScanReads(buf, i + 1, j))
    ELSE {}

\* The ID3v2 test on the first three bytes: "ID3".
HasID3MagicThreeBytes(buf, j) ==
    (ByteAt(buf, 0, j) = 73) /\ (ByteAt(buf, 1, j) = 68) /\ (ByteAt(buf, 2, j) = 51)

\* The ID3v2 test of the locator, as written: all three compare file[0].
HasID3Magic(buf, j) ==
    (ByteAt(buf, 0, j) = 73) /\ (ByteAt(buf, 0, j) = 68) /\ (ByteAt(buf, 0, j) = 51)

\* off after the ID3v2 block: synchsafe size + 10, + 10 more with a footer.
TagOffset(buf, j) ==
    IF HasID3Magic(buf, j)
    THEN s_from_synchsafe_int32(buf, 6, j) + 10
         + (IF (ByteAt(buf, 5, j) \div 16) % 2 = 1 THEN 10 ELSE 0)
    ELSE 0

\* The least file size the locator accepts: if(stat.st_size < 10) is -EIO.
MinFileSize == 10

TooShortOffByOne(size) == size < MinFileSize - 1

TooShort(size) == size < MinFileSize

(***************************************************************************)
(* s_get_mp3_frame_header_offset(o, f).  The result records the return     *)
(* value, whether *o was written and with what, the file indices read,     *)
(* whether the file was opened and mapped, and how many times the          *)
(* descriptor was closed and the mapping unmapped.                         *)
(* A failing open, fstat or mmap returns -errno; the model takes the errno *)
(* each call sets most often: ENOENT, EIO and ENOMEM.                      *)
(***************************************************************************)
\* A return through the label done with nothing opened.
LocFail(r, rd) ==
    [ret |-> r, written |-> FALSE, o |-> 0, reads |-> rd,
     opened |-> FALSE, mapped |-> FALSE, closes |-> 0, unmaps |-> 0]

\* open and mmap have succeeded.
Opened(res) == [res EXCEPT !.opened = TRUE]

Mapped(res) == [res EXCEPT !.mapped = TRUE]

\* err_after_open: close(fd);
ErrAfterOpen(res) == [res EXCEPT !.closes = @ + 1]

\* The label err_after_mmap returning after munmap, without the close.
ErrAfterMmapNoClose(res) == [res EXCEPT !.unmaps = @ + 1]

\* err_after_mmap: munmap(file, stat.st_size); and on into err_after_open
ErrAfterMmap(res) == ErrAfterOpen([res EXCEPT !.unmaps = @ + 1])

s_get_mp3_frame_header_offset(f, env, j) ==
    LET tagOff == TagOffset(f, j)
        magicReads == {0} \cup (IF HasID3Magic(f, j) THEN {5, 6, 7, 8, 9} ELSE {})
        firstOk == s_is_mp3_frame_header(f, tagOff, j)
        off == IF firstOk THEN tagOff ELSE ScanLoop(f, 0, tagOff, j)
        rd == magicReads \cup HeaderReads(f, tagOff, j)
                \cup (IF firstOk THEN {} ELSE ScanReads(f, 0, j))
                \cup HeaderReads(f, off, j)
    IN  IF env = "open_fails" THEN LocFail(-ENOENT, {})
        ELSE IF env = "fstat_fails" THEN ErrAfterOpen(Opened(LocFail(-EIO, {})))
        ELSE IF TooShort(Len(f)) THEN ErrAfterOpen(Opened(LocFail(-EIO, {})))
        ELSE IF env = "mmap_fails" THEN ErrAfterOpen(Opened(LocFail(-ENOMEM, {})))
        ELSE IF ~s_is_mp3_frame_header(f, off, j)
             THEN ErrAfterMmap(Mapped(Opened(LocFail(-EINVAL, rd))))
        ELSE ErrAfterMmap(Mapped(Opened([LocFail(0, rd) EXCEPT !.written = TRUE,
                                                               !.o = off])))

(***************************************************************************)
(* s_ftype(t, f): FTYPE_MP3 when the locator succeeds, else -EINVAL.       *)
(***************************************************************************)
\* s_ftype handing on the locator's own error.
s_ftype_propagating(f, env, j) ==
    IF s_get_mp3_frame_header_offset(f, env, j).ret = 0
    THEN [ret |-> 0, type |-> "FTYPE_MP3"]
    ELSE [ret |-> s_get_mp3_frame_header_offset(f, env, j).ret,
          type |-> "FTYPE_INVALID"]

s_ftype(f, env, j) ==
    IF s_get_mp3_frame_header_offset(f, env, j).ret = 0
    THEN [ret |-> 0, type |-> "FTYPE_MP3"]
    ELSE [ret |-> -EINVAL, type |-> "FTYPE_INVALID"]

(***************************************************************************)
(* s_interpret_mp3_rate(stat, version, rate): the version x rate table.    *)
(***************************************************************************)
\* The table with the MPEG2 and MPEG2.5 rows exchanged.
s_interpret_mp3_rate_swapped(stat, version, rate) ==
    CASE version = 2 /\ rate = 0 -> [ret |-> 0, stat |-> [stat EXCEPT !.sample_rate = 11025]]
      [] version = 2 /\ rate = 1 -> [ret |-> 0, stat |-> [stat EXCEPT !.sample_rate = 12000]]
      [] version = 2 /\ rate = 2 -> [ret |-> 0, stat |-> [stat EXCEPT !.sample_rate = 8000]]
      [] version = 0 /\ rate = 0 -> [ret |-> 0, stat |-> [stat EXCEPT !.sample_rate = 22050]]
      [] version = 0 /\ rate = 1 -> [ret |-> 0, stat |-> [stat EXCEPT !.sample_rate = 24000]]
      [] version = 0 /\ rate = 2 -> [ret |-> 0, stat |-> [stat EXCEPT !.sample_rate = 16000]]
      [] version = 3 /\ rate = 0 -> [ret |-> 0, stat |-> [stat EXCEPT !.sample_rate = 44100]]
      [] version = 3 /\ rate = 1 -> [ret |-> 0, stat |-> [stat EXCEPT !.sample_rate = 48000]]
      [] version = 3 /\ rate = 2 -> [ret |-> 0, stat |-> [stat EXCEPT !.sample_rate = 32000]]
      [] OTHER -> [ret |-> -EINVAL, stat |-> stat]

s_interpret_mp3_rate(stat, version, rate) ==
    CASE version = 0 /\ rate = 0 -> [ret |-> 0, stat |-> [stat EXCEPT !.sample_rate = 11025]]
      [] version = 0 /\ rate = 1 -> [ret |-> 0, stat |-> [stat EXCEPT !.sample_rate = 12000]]
      [] version = 0 /\ rate = 2 -> [ret |-> 0, stat |-> [stat EXCEPT !.sample_rate = 8000]]
      [] version = 2 /\ rate = 0 -> [ret |-> 0, stat |-> [stat EXCEPT !.sample_rate = 22050]]
      [] version = 2 /\ rate = 1 -> [ret |-> 0, stat |-> [stat EXCEPT !.sample_rate = 24000]]
      [] version = 2 /\ rate = 2 -> [ret |-> 0, stat |-> [stat EXCEPT !.sample_rate = 16000]]
      [] version = 3 /\ rate = 0 -> [ret |-> 0, stat |-> [stat EXCEPT !.sample_rate = 44100]]
      [] version = 3 /\ rate = 1 -> [ret |-> 0, stat |-> [stat EXCEPT !.sample_rate = 48000]]
      [] version = 3 /\ rate = 2 -> [ret |-> 0, stat |-> [stat EXCEPT !.sample_rate = 32000]]
      [] OTHER -> [ret |-> -EINVAL, stat |-> stat]

\* version = (header[1] & 0x18) >> 3, rate = (header[2] & 0x0C) >> 2.
HeaderVersion(b1) == (b1 \div 8) % 4
HeaderRate(b2) == (b2 \div 4) % 4

(***************************************************************************)
(* s_audio_stat_mp3(stat, f): type and bit depth are set first, then the   *)
(* header is located, four bytes are read at it and interpreted.           *)
(* StatAtHeader is the function from the locator's return on: loc is what  *)
(* s_get_mp3_frame_header_offset returned.                                 *)
(***************************************************************************)
StatAtHeader(stat, f, loc) ==
    LET st == [stat EXCEPT !.type = "FTYPE_MP3", !.bit_depth = 16]
    IN  IF loc.ret < 0 THEN [ret |-> loc.ret, stat |-> st]
        ELSE IF loc.o + 4 > Len(f) THEN [ret |-> -EIO, stat |-> st]
        ELSE s_interpret_mp3_rate(st, HeaderVersion(f[loc.o + 2]),
                                  HeaderRate(f[loc.o + 3]))

s_audio_stat_mp3(stat, f, env, j) ==
    StatAtHeader(stat, f, s_get_mp3_frame_header_offset(f, env, j))

(***************************************************************************)
(* s_audio_stat(stat, f): s_ftype, then the reader of that type.           *)
(***************************************************************************)
s_audio_stat(stat, f, env, j) ==
    LET t == s_ftype(f, env, j)
    IN  IF t.ret < 0 THEN [ret |-> t.ret, stat |-> stat]
        ELSE IF t.type = "FTYPE_MP3" THEN s_audio_stat_mp3(stat, f, env, j)
        ELSE [ret |-> -EINVAL, stat |-> stat]

(***************************************************************************)
(* s_decode(buf, bufSize, f) (decode.c: decode, decode_with_codec): the    *)
(* file type, the frame offset, then the external codec, whose return      *)
(* value and output bytes are cdc.                                         *)
(***************************************************************************)
s_decode(f, env, j, cdc) ==
    LET t == s_ftype(f, env, j)
        loc == s_get_mp3_frame_header_offset(f, env, j)
    IN  IF t.ret # 0 THEN [ret |-> t.ret, pcm |-> << >>]
        ELSE IF loc.ret < 0 THEN [ret |-> loc.ret, pcm |-> << >>]
        ELSE [ret |-> cdc.ret, pcm |-> cdc.pcm]

(***************************************************************************)
(* 32-bit two's complement arithmetic on the values of int32_t.            *)
(***************************************************************************)
\* x << 8 in 32 bits: the low 24 bits of x move up, bit 23 becomes the sign.
Shl8(x) ==
    LET low == x % 16777216
    IN  IF low >= 8388608 THEN (low - 16777216) * 256 ELSE low * 256

\* Bit i (0..31) of the two's complement integer x.
Bit(x, i) == (x \div (2 ^ i)) % 2

\* a | b on 32-bit two's complement integers: bit i of the result is set when
\* it is set in a or in b; bit 31 is the sign.
RECURSIVE OrBits(_, _, _)
OrBits(a, b, i) ==
    IF i = 31 THEN 0
    ELSE (IF Bit(a, i) = 1 \/ Bit(b, i) = 1 THEN 2 ^ i ELSE 0) + OrBits(a, b, i + 1)

BitOr(a, b) ==
    IF a < 0 \/ b < 0
    THEN (OrBits(a, b, 0) - 1073741824) - 1073741824
    ELSE OrBits(a, b, 0)

\* (uint32_t) d[i] for d a const char *: a signed char sign-extends.
CharValue(b, signed) == IF signed /\ b >= 128 THEN b - 256 ELSE b

(***************************************************************************)
(* One channel of s_process_next_sample:                                   *)
(*     for(o = 0; o < (bits >> 3); ++o)                                    *)
(*         { s[*soff].l <<= 8; s[*soff].l |= (uint32_t) d[*doff + o]; }    *)
(* ReadChannel is the channel value after the loop has run from o on.      *)
(***************************************************************************)
RECURSIVE ReadChannel(_, _, _, _, _, _)
ReadChannel(acc, d, doff, o, nbytes, signed) ==
    IF o < nbytes
    THEN ReadChannel(BitOr(Shl8(acc), CharValue(d[doff + o + 1], signed)),
                     d, doff, o + 1, nbytes, signed)
    ELSE acc

(***************************************************************************)
(* s_process_next_sample(s, soff, d, doff, bytes, bits).  s is the sample  *)
(* array; oob records a store to s[*soff] outside the array.               *)
(***************************************************************************)
s_process_next_sample(s, soff, d, doff, bytes, bits, signed) ==
    LET inb == soff < Len(s)
        cleared == IF inb THEN [s EXCEPT ![soff + 1] = [l |-> 0, r |-> 0]] ELSE s
        left == ReadChannel(0, d, doff, 0, bits \div 8, signed)
        right == ReadChannel(0, d, doff + (bits \div 8), 0, bits \div 8, signed)
    IN  IF doff + (bits \div 4) >= bytes
        THEN [more |-> FALSE, s |-> cleared, soff |-> soff, doff |-> doff,
              oob |-> ~inb]
        ELSE [more |-> TRUE,
              s |-> IF inb THEN [s EXCEPT ![soff + 1] = [l |-> left, r |-> right]]
                    ELSE s,
              soff |-> soff + 1, doff |-> doff + 2 * (bits \div 8),
              oob |-> ~inb]

\* while(s_process_next_sample(raw->samples, &soff, audio, &doff, bytes, bits)) {}
RECURSIVE SampleLoop(_, _, _, _, _, _, _, _)
SampleLoop(s, soff, d, doff, bytes, bits, signed, oob) ==
    LET r == s_process_next_sample(s, soff, d, doff, bytes, bits, signed)
    IN  IF r.more
        THEN SampleLoop(r.s, r.soff, d, r.doff, bytes, bits, signed, oob \/ r.oob)
        ELSE [r EXCEPT !.oob = oob \/ r.oob]

(***************************************************************************)
(* s_raw_audio_t handles.  null: the pointer is NULL; buf: samples is not  *)
(* NULL; samples: the content of the sample array.                         *)
(***************************************************************************)
EmptyStat == [type |-> "FTYPE_INVALID", bit_depth |-> 0, sample_rate |-> 0]

NullRaw == [null |-> TRUE, stat |-> EmptyStat, samples_length |-> 0,
            buf |-> FALSE, samples |-> << >>]

\* malloc(n elements): the array is not initialised, every cell holds g.
Uninit(n, g) == [i \in 1..n |-> g]

(***************************************************************************)
(* s_decode_raw_audio(raw, f), last step first.  ok: whether malloc        *)
(* succeeds; g: what the fresh array holds.                                *)
(***************************************************************************)
\* if(soff + 1 != raw->samples_length): lp is where the sample loop stopped.
DecodeFinish(r3, lp) ==
    IF lp.soff + 1 # r3.samples_length
    THEN [ret |-> -EINVAL, raw |-> [r3 EXCEPT !.samples_length = 0], oob |-> lp.oob]
    ELSE [ret |-> 0, raw |-> [r3 EXCEPT !.buf = TRUE, !.samples = lp.s],
          oob |-> lp.oob]

\* raw->samples = malloc(...), then the sample loop from soff = doff = 0.
DecodeFill(r3, pcm, bits, signed, ok, g) ==
    IF ~ok THEN [ret |-> -ENOMEM, raw |-> r3, oob |-> FALSE]
    ELSE DecodeFinish(r3, SampleLoop(Uninit(r3.samples_length, g), 0, pcm, 0,
                                     Len(pcm), bits, signed, FALSE))

\* The length test jumping to the clean-up without setting ret.
DecodeSizedRetUnset(r2, pcm, bits, signed, ok, g) ==
    IF Len(pcm) % r2.samples_length # 0
    THEN [ret |-> 0, raw |-> r2, oob |-> FALSE]
    ELSE DecodeFill([r2 EXCEPT !.samples_length = Len(pcm) \div r2.samples_length],
                    pcm, bits, signed, ok, g)

\* raw->samples_length holds bit_depth >> 2: the length test, then bytes / it.
DecodeSized(r2, pcm, bits, signed, ok, g) ==
    IF Len(pcm) % r2.samples_length # 0
    THEN [ret |-> -EINVAL, raw |-> r2, oob |-> FALSE]
    ELSE DecodeFill([r2 EXCEPT !.samples_length = Len(pcm) \div r2.samples_length],
                    pcm, bits, signed, ok, g)

\* dec: what s_decode returned; st: what s_audio_stat(&raw->stat, f) returned.
DecodeBody(rw, dec, st, signed, ok, g) ==
    IF dec.ret < 0 THEN [ret |-> dec.ret, raw |-> rw, oob |-> FALSE]
    ELSE IF st.ret < 0
         THEN [ret |-> st.ret, raw |-> [rw EXCEPT !.stat = st.stat], oob |-> FALSE]
    ELSE DecodeSized([rw EXCEPT !.stat = st.stat, !.buf = FALSE, !.samples = << >>,
                                !.samples_length = st.stat.bit_depth \div 4],
                     dec.pcm, st.stat.bit_depth, signed, ok, g)

s_decode_raw_audio(rw, f, env, j, cdc, signed, ok, g) ==
    DecodeBody(rw, s_decode(f, env, j, cdc), s_audio_stat(rw.stat, f, env, j),
               signed, ok, g)

(***************************************************************************)
(* s_init_raw_audio(r) and s_free_raw_audio(r).  The allocation test of    *)
(* s_init_raw_audio is on r, not *r, so a failed malloc is dereferenced:   *)
(* crashed.                                                                *)
(***************************************************************************)
s_init_raw_audio(h, ok) ==
    IF ~h.null THEN [ret |-> -EINVAL, h |-> h, crashed |-> FALSE]
    ELSE IF ~ok THEN [ret |-> 0, h |-> NullRaw, crashed |-> TRUE]
    ELSE [ret |-> 0, h |-> [NullRaw EXCEPT !.null = FALSE], crashed |-> FALSE]

s_free_raw_audio(h) == NullRaw

(***************************************************************************)
(* s_copy_raw_audio_window(dst, src, o, w).  ok1, ok2: whether the two     *)
(* mallocs succeed; g: what the fresh array, and a read past the end of    *)
(* src->samples, hold.                                                     *)
(*     for(i = o; i < w; ++i) dst->samples[i] = src->samples[i + o];       *)
(***************************************************************************)
SrcSample(src, i, g) ==
    IF i < Len(src.samples) THEN src.samples[i + 1] ELSE g

RECURSIVE CopyLoop(_, _, _, _, _, _)
CopyLoop(ds, src, i, o, w, g) ==
    IF i < w
    THEN CopyLoop([ds EXCEPT ![i + 1] = SrcSample(src, i + o, g)],
                  src, i + 1, o, w, g)
    ELSE ds

s_copy_raw_audio_window(d, src, o, w, ok1, ok2, g) ==
    LET ini == s_init_raw_audio(s_free_raw_audio(d), ok1)
        d1 == [ini.h EXCEPT !.stat = src.stat, !.samples_length = w]
    IN  IF ini.crashed THEN [ret |-> 0, dst |-> NullRaw, crashed |-> TRUE]
        ELSE IF ini.ret < 0 THEN [ret |-> ini.ret, dst |-> ini.h, crashed |-> FALSE]
        ELSE IF ~ok2
             THEN [ret |-> ini.ret, dst |-> s_free_raw_audio(d1), crashed |-> FALSE]
        ELSE [ret |-> 0,
              dst |-> [d1 EXCEPT !.buf = TRUE,
                                 !.samples = CopyLoop(Uninit(w, g), src, o, o, w, g)],
              crashed |-> FALSE]

s_copy_raw_audio(d, src, ok1, ok2, g) ==
    s_copy_raw_audio_window(d, src, 0, src.samples_length, ok1, ok2, g)

(***************************************************************************)
(* 64-bit integers.  An int64_t or uint64_t is held in two limbs, hi and   *)
(* lo with 0 <= lo < 65536: its value is hi * 65536 + lo.                  *)
(***************************************************************************)
\* (int64_t) x for an int32_t x.
ToWide(x) == [hi |-> x \div 65536, lo |-> x % 65536]

\* a + b in 64 bits.
WideAdd(a, b) ==
    [hi |-> a.hi + b.hi + ((a.lo + b.lo) \div 65536), lo |-> (a.lo + b.lo) % 65536]

\* a >> 1 on a signed 64-bit integer: the sign bit is shifted in.
WideSar1(a) == [hi |-> a.hi \div 2, lo |-> (a.lo \div 2) + (a.hi % 2) * 32768]

\* (int32_t) a: the low 32 bits, read as two's complement.
WideToInt32(a) == (((a.hi + 32768) % 65536) - 32768) * 65536 + a.lo

(***************************************************************************)
(* s_mono_sample(s) (util/math.c):                                         *)
(*     int64_t mono = ( ((int64_t) s.l) + ((int64_t) s.r) ) >> 1;          *)
(*     return (int32_t) mono;                                              *)
(***************************************************************************)
\* The sum taken in 32 bits, where it wraps, before the shift.
s_mono_sample_narrow(s) ==
    WideToInt32(WideSar1(ToWide(WideToInt32(WideAdd(ToWide(s.l), ToWide(s.r))))))

s_mono_sample(s) == WideToInt32(WideSar1(WideAdd(ToWide(s.l), ToWide(s.r))))

(***************************************************************************)
(* util/bitwise.c on values below 2^31.                                    *)
(***************************************************************************)
\* v >> k for an unsigned v; k = 32 is taken in two steps of 16.
Shr(v, k) == IF k = 32 THEN (v \div 65536) \div 65536 ELSE v \div (2 ^ k)

\* a & b on integers in 0 .. 2^31 - 1.
RECURSIVE AndBits(_, _, _)
AndBits(a, b, i) ==
    IF i = 31 THEN 0
    ELSE (IF Bit(a, i) = 1 /\ Bit(b, i) = 1 THEN 2 ^ i ELSE 0) + AndBits(a, b, i + 1)

\* v & (v - 1): the right-most one bit turned off.  v is unsigned: 0 - 1 wraps
\* to all ones, and 0 & ~0 is 0.
s_rmo_off(v) == IF v = 0 THEN 0 ELSE AndBits(v, v - 1, 0)

s_is_pow_2(v) == (v # 0) /\ (s_rmo_off(v) = 0)

\* v | (v >> 1) | ... : every bit below the leading one is set.
Smear(v, k) == BitOr(v, Shr(v, k))

s_flp2(v) ==
    LET all == Smear(Smear(Smear(Smear(Smear(Smear(v, 1), 2), 4), 8), 16), 32)
    IN  all - Shr(all, 1)

(***************************************************************************)
(* s_get_window_size.  The repository defines it twice: util/math.c        *)
(* computes s_flp2(s / w); spectr/transform/attr.c, the one main calls,    *)
(* ignores its arguments and answers 512.                                  *)
(***************************************************************************)
\* The window size floored from s / w + 1.
s_get_window_size_ceil(w, s) ==
    IF s < w THEN [ret |-> -EINVAL, written |-> FALSE, o |-> 0]
    ELSE [ret |-> 0, written |-> TRUE, o |-> s_flp2((s \div w) + 1)]

\* util/math.c
s_get_window_size(w, s) ==
    IF s < w THEN [ret |-> -EINVAL, written |-> FALSE, o |-> 0]
    ELSE [ret |-> 0, written |-> TRUE, o |-> s_flp2(s \div w)]

\* spectr/transform/attr.c
FixedWindowSize == 512

s_get_window_size_attr(w, h, s) == [ret |-> 0, written |-> TRUE, o |-> FixedWindowSize]

(***************************************************************************)
(* The allocator.  A pointer is 0 (NULL) or the number of a block; live is *)
(* the set of allocated blocks.  failIn = k > 0: the k-th malloc from now  *)
(* returns NULL.  zeroNull: whether malloc(0) returns NULL.  last is what  *)
(* the latest malloc returned.  badFree records a free of a pointer that   *)
(* is not a live block.                                                    *)
(***************************************************************************)
MaxBlocks == 40

FreshBlock(live) == CHOOSE b \in 1..MaxBlocks : b \notin live /\ \A c \in 1..(b - 1) : c \in live

Malloc(h, n) ==
    IF h.failIn = 1 \/ (n = 0 /\ h.zeroNull) \/ Cardinality(h.live) >= MaxBlocks
    THEN [h EXCEPT !.last = 0, !.failIn = IF @ = 1 THEN 0 ELSE @]
    ELSE [h EXCEPT !.last = FreshBlock(h.live),
                   !.live = @ \cup {FreshBlock(h.live)},
                   !.failIn = IF @ > 1 THEN @ - 1 ELSE 0]

Free(h, p) ==
    IF p \in h.live THEN [h EXCEPT !.live = @ \ {p}] ELSE [h EXCEPT !.badFree = TRUE]

(***************************************************************************)
(* util/complex.c.  A double that the transform computes is an integer     *)
(* combination of cos and sin of multiples of 2 pi / 16, so a complex      *)
(* value r + i*j is held exactly by its eight integer coordinates in the   *)
(* basis 1, z, ..., z^7, z = e^(-2 pi j / 16), z^8 = -1.  Sample values    *)
(* are held in quarters (the double x as the integer 4x), which makes the  *)
(* Hann coefficients of windows up to 4 integers.                          *)
(*                                                                         *)
(* M_PI is the double nearest to pi, not pi: e = pi - M_PI is about        *)
(* 1.22e-16.  s_cexp is therefore called at -2 M_PI k / N, which is off    *)
(* the intended angle by 2 e k / N.  Field d holds this deviation to first *)
(* order, in units of e / 8; field v holds the value in exact arithmetic.  *)
(* The rounding of each single + and * is not modelled.  nan: the real     *)
(* part is NaN.                                                            *)
(***************************************************************************)
Zero8 == <<0, 0, 0, 0, 0, 0, 0, 0>>

\* z^m
Unit(m) == [k \in 1..8 |-> IF k - 1 = m % 8 THEN (IF m % 16 < 8 THEN 1 ELSE -1) ELSE 0]

RingAdd(a, b) == [k \in 1..8 |-> a[k] + b[k]]

RingScale(c, a) == [k \in 1..8 |-> c * a[k]]

\* The term a_i z^i * b_j z^j of coordinate k of a product: j = k - i, or
\* j = k - i + 8 with z^8 = -1.
MulTerm(a, b, k, i) == a[i + 1] * (IF i <= k THEN b[k - i + 1] ELSE -b[k - i + 9])

RingMul(a, b) ==
    [k \in 1..8 |-> MulTerm(a, b, k - 1, 0) + MulTerm(a, b, k - 1, 1)
                  + MulTerm(a, b, k - 1, 2) + MulTerm(a, b, k - 1, 3)
                  + MulTerm(a, b, k - 1, 4) + MulTerm(a, b, k - 1, 5)
                  + MulTerm(a, b, k - 1, 6) + MulTerm(a, b, k - 1, 7)]

\* The complex number x + 0j, x given in quarters.
RealValue(x) == [v |-> [k \in 1..8 |-> IF k = 1 THEN x ELSE 0], d |-> Zero8, nan |-> FALSE]

ComplexZero == RealValue(0)

s_cadd(a, b) == [v |-> RingAdd(a.v, b.v), d |-> RingAdd(a.d, b.d), nan |-> a.nan \/ b.nan]

\* (m x - n y) + (n x + m y) j
s_cmul(a, b) ==
    [v |-> RingMul(a.v, b.v),
     d |-> RingAdd(RingMul(a.v, b.d), RingMul(a.d, b.v)),
     nan |-> a.nan \/ b.nan]

\* s_cexp(r, x) = cos(x) + sin(x) j at x = -2 M_PI m / 16: z^m, and the
\* deviation j * m * z^m in units of e / 8 (j = z^12).
s_cexp(m) == [v |-> Unit(m), d |-> RingScale(m, Unit(m + 12)), nan |-> FALSE]

\* bigw * idx = (-2.0 * M_PI / bign) * idx, in sixteenths of a turn.
Turns(idx, bign) == idx * (16 \div bign)

(***************************************************************************)
(* transform/fourier.c: the window functions.  A coefficient is q quarters *)
(* or NaN.  s_hann_function(n, N) = 0.5 * (1 - cos(2 pi n / (N - 1))):     *)
(* N = 1 divides by 0.0, which gives NaN (0/0) or cos(inf) = NaN;          *)
(* N = 2 gives 0, 0; N = 4 gives 0, 3/4, 3/4, 0.                           *)
(* wfn is a parameter of s_fft_part: "caller" is a function of the caller  *)
(* that returns n + 1, "NULL" is no window.                                *)
(***************************************************************************)
MaxHannLen == 4

s_hann_function(n, N) ==
    CASE N = 1 -> [q |-> 0, nan |-> TRUE]
      [] N = 2 -> [q |-> 0, nan |-> FALSE]
      [] N = 4 -> [q |-> IF n \in {1, 2} THEN 3 ELSE 0, nan |-> FALSE]

WindowCall(wfn, n, N) ==
    IF wfn = "s_hann_function" THEN s_hann_function(n, N)
    ELSE [q |-> 4 * (n + 1), nan |-> FALSE]

(***************************************************************************)
(* The machine the transform functions run on: m.heap is the allocator,    *)
(* m.dft the s_dft_t handle the function is given, m.stft the s_stft_t     *)
(* handle, m.ret the value returned last, m.crashed whether the process    *)
(* has died.  m.env is the build: garbage is what a read outside the       *)
(* sample array yields unless it traps (oobTraps); divTraps is whether an  *)
(* integer division by zero traps (it yields 0 otherwise).  The remaining  *)
(* fields keep a record of what was done: reads, the sample indices read;  *)
(* oob, whether one was outside the array; leaves, the offsets of the      *)
(* base cases of s_fft_r in order; wcalls, the arguments of the calls of   *)
(* the window function in order.                                           *)
(***************************************************************************)
NullDft == [ptr |-> 0, length |-> 0, buf |-> 0, vals |-> << >>]

NullStft == [ptr |-> 0, raw_length |-> 0, raw_stat |-> EmptyStat, window |-> 0,
             length |-> 0, arr |-> 0, dfts |-> << >>]

\* s_init_dft(dft)
DftAllocated(m) ==
    IF m.heap.last = 0 THEN [m EXCEPT !.ret = -ENOMEM]
    ELSE [m EXCEPT !.dft = [NullDft EXCEPT !.ptr = m.heap.last], !.ret = 0]

s_init_dft(m) ==
    IF m.dft.ptr # 0 THEN [m EXCEPT !.ret = -EINVAL]
    ELSE DftAllocated([m EXCEPT !.heap = Malloc(m.heap, 1)])

\* s_free_dft that frees the structure and not its values.
s_free_dft_struct_only(m) ==
    IF m.dft.ptr = 0 THEN m
    ELSE [m EXCEPT !.heap = Free(m.heap, m.dft.ptr), !.dft = NullDft]

\* s_free_dft(dft)
s_free_dft(m) ==
    IF m.dft.ptr = 0 THEN m
    ELSE [m EXCEPT !.heap = Free(IF m.dft.buf # 0 THEN Free(m.heap, m.dft.buf)
                                 ELSE m.heap, m.dft.ptr),
                   !.dft = NullDft]

\* s_init_dft_result(dft, length), from the malloc on
DftResultAllocated(m) ==
    IF m.heap.last = 0 THEN [m EXCEPT !.ret = -ENOMEM]
    ELSE [m EXCEPT !.dft.buf = m.heap.last,
                   !.dft.vals = [i \in 1..m.dft.length |-> ComplexZero],
                   !.ret = 0]

s_init_dft_result(m, length) ==
    IF length < 1 THEN [m EXCEPT !.ret = -EINVAL]
    ELSE DftResultAllocated(
             [m EXCEPT !.heap = Malloc(IF m.dft.buf # 0 THEN Free(m.heap, m.dft.buf)
                                       ELSE m.heap, length),
                       !.dft.buf = 0, !.dft.vals = << >>, !.dft.length = length])

\* s_copy_dft(dst, src): m.dft is the destination
DftCopyAllocated(m, src) ==
    IF m.heap.last = 0 THEN [s_free_dft(m) EXCEPT !.ret = -ENOMEM]
    ELSE [m EXCEPT !.dft.buf = m.heap.last, !.dft.vals = src.vals, !.ret = 0]

DftCopyInit(m, src) ==
    IF m.ret < 0 THEN m
    ELSE DftCopyAllocated([m EXCEPT !.dft.length = src.length,
                                    !.heap = Malloc(m.heap, src.length)], src)

s_copy_dft(m, src) == DftCopyInit(s_init_dft(s_free_dft(m)), src)

(***************************************************************************)
(* s_fft_r(dft, dfto, src, s, o, bign, wfn, orgO, orgN)                    *)
(***************************************************************************)
\* A base case that leaves the real part's value in the imaginary part
\* instead of 0.0: x + x j, with j = z^12 = -z^4.
LeafValueImag(x, wfn, n, N) ==
    [v |-> [k \in 1..8 |-> IF k = 1 THEN 4 * x ELSE IF k = 5 THEN -4 * x ELSE 0],
     d |-> Zero8, nan |-> FALSE]

\* The base case, bign = 1: the value stored at dft->dft[o - dfto].
LeafValue(x, wfn, n, N) ==
    IF wfn = "NULL" THEN RealValue(4 * x)
    ELSE [RealValue(x * WindowCall(wfn, n, N).q) EXCEPT !.nan = WindowCall(wfn, n, N).nan]

FftLeaf(m, dfto, src, o, wfn, orgO, orgN) ==
    IF m.dft.buf = 0 THEN [m EXCEPT !.crashed = TRUE]
    ELSE IF o >= Len(src.samples) /\ m.env.oobTraps
         THEN [m EXCEPT !.crashed = TRUE, !.oob = TRUE, !.reads = @ \cup {o}]
    ELSE [m EXCEPT !.dft.vals[o - dfto + 1] =
                       LeafValue(s_mono_sample(SrcSample(src, o, m.env.garbage)),
                                 wfn, o - orgO, orgN),
                   !.reads = @ \cup {o},
                   !.oob = @ \/ (o >= Len(src.samples)),
                   !.leaves = Append(@, o),
                   !.leafDepths = @ \cup {m.depth},
                   !.wcalls = IF wfn = "NULL" THEN @ ELSE Append(@, <<o - orgO, orgN>>),
                   !.ret = 0]

\* The butterfly loop with the upper half given the lower half's factor.
RECURSIVE ButterflyLoopSameFactor(_, _, _, _, _, _, _, _)
ButterflyLoopSameFactor(vals, prime, idx, half, bign, s, o, dfto) ==
    IF idx < half
    THEN ButterflyLoopSameFactor(
             [vals EXCEPT
                 ![s * idx + o - dfto + 1] =
                     s_cadd(prime[2 * idx + 1],
                            s_cmul(s_cexp(Turns(idx, bign)), prime[2 * idx + 2])),
                 ![s * (idx + half) + o - dfto + 1] =
                     s_cadd(prime[2 * idx + 1],
                            s_cmul(s_cexp(Turns(idx, bign)), prime[2 * idx + 2]))],
             prime, idx + 1, half, bign, s, o, dfto)
    ELSE vals

\* The butterfly loop with the lower half given the upper half's factor.
RECURSIVE ButterflyLoopUpperFactor(_, _, _, _, _, _, _, _)
ButterflyLoopUpperFactor(vals, prime, idx, half, bign, s, o, dfto) ==
    IF idx < half
    THEN ButterflyLoopUpperFactor(
             [vals EXCEPT
                 ![s * idx + o - dfto + 1] =
                     s_cadd(prime[2 * idx + 1],
                            s_cmul(s_cexp(Turns(idx + half, bign)), prime[2 * idx + 2])),
                 ![s * (idx + half) + o - dfto + 1] =
                     s_cadd(prime[2 * idx + 1],
                            s_cmul(s_cexp(Turns(idx + half, bign)), prime[2 * idx + 2]))],
             prime, idx + 1, half, bign, s, o, dfto)
    ELSE vals

\* for(idx = 0; idx < half; ++idx): dstl = even + W^idx odd,
\* dstu = even + W^(idx + half) odd; prime is dftprime.
RECURSIVE ButterflyLoop(_, _, _, _, _, _, _, _)
ButterflyLoop(vals, prime, idx, half, bign, s, o, dfto) ==
    IF idx < half
    THEN ButterflyLoop(
             [vals EXCEPT
                 ![s * idx + o - dfto + 1] =
                     s_cadd(prime[2 * idx + 1],
                            s_cmul(s_cexp(Turns(idx, bign)), prime[2 * idx + 2])),
                 ![s * (idx + half) + o - dfto + 1] =
                     s_cadd(prime[2 * idx + 1],
                            s_cmul(s_cexp(Turns(idx + half, bign)), prime[2 * idx + 2]))],
             prime, idx + 1, half, bign, s, o, dfto)
    ELSE vals

\* dftprime[idx] = dft->dft[s * idx + o - dfto]
DftPrime(vals, bign, s, o, dfto) ==
    [i \in 1..bign |-> vals[s * (i - 1) + o - dfto + 1]]

\* From the malloc of dftprime to its free.
FftCombine(m, dfto, s, o, bign) ==
    IF m.heap.last = 0 THEN [m EXCEPT !.ret = -ENOMEM]
    ELSE [m EXCEPT !.dft.vals = ButterflyLoop(m.dft.vals,
                                              DftPrime(m.dft.vals, bign, s, o, dfto),
                                              0, bign \div 2, bign, s, o, dfto),
                   !.heap = Free(m.heap, m.heap.last),
                   !.ret = 0]

FftMerge(m, dfto, s, o, bign) ==
    IF m.crashed \/ m.ret < 0 THEN m
    ELSE FftCombine([m EXCEPT !.heap = Malloc(m.heap, bign)], dfto, s, o, bign)

\* A recursive call of s_fft_r pushes a frame on the call stack, its return
\* pops it: m.depth is the number of frames below the first call's.
Enter(m) ==
    [m EXCEPT !.depth = @ + 1, !.maxDepth = IF m.depth + 1 > @ THEN m.depth + 1 ELSE @]

Leave(m) == [m EXCEPT !.depth = @ - 1]

RECURSIVE s_fft_r(_, _, _, _, _, _, _, _, _)
\* The odd half given its own offset and length as the window's.
FftOddRebased(m, dfto, src, s, o, bign, wfn, orgO, orgN) ==
    IF m.crashed \/ m.ret < 0 THEN m
    ELSE Leave(s_fft_r(Enter(m), dfto, src, 2 * s, o + s, bign \div 2, wfn, o + s,
                       bign \div 2))

\* The odd half left out.
FftOddSkipped(m, dfto, src, s, o, bign, wfn, orgO, orgN) == m

RECURSIVE FftOdd(_, _, _, _, _, _, _, _, _)
FftOdd(m, dfto, src, s, o, bign, wfn, orgO, orgN) ==
    IF m.crashed \/ m.ret < 0 THEN m
    ELSE Leave(s_fft_r(Enter(m), dfto, src, 2 * s, o + s, bign \div 2, wfn, orgO, orgN))

s_fft_r(m, dfto, src, s, o, bign, wfn, orgO, orgN) ==
    IF bign = 1 THEN FftLeaf(m, dfto, src, o, wfn, orgO, orgN)
    ELSE FftMerge(FftOdd(Leave(s_fft_r(Enter(m), dfto, src, 2 * s, o, bign \div 2, wfn,
                                       orgO, orgN)),
                         dfto, src, s, o, bign, wfn, orgO, orgN),
                  dfto, s, o, bign)

(***************************************************************************)
(* s_fft_part(dft, src, o, l, wfn) and s_fft(dft, src)                     *)
(***************************************************************************)
FftPartDone(m) ==
    IF m.crashed THEN m
    ELSE IF m.ret < 0 THEN s_free_dft(m)
    ELSE [m EXCEPT !.ret = 0]

\* s_init_dft_result(*dft, l): its return value is not looked at.
FftPartRun(m, src, o, l, wfn) ==
    IF m.ret < 0 THEN m
    ELSE FftPartDone(s_fft_r([s_init_dft_result(m, l) EXCEPT !.ret = 0],
                             o, src, 1, o, l, wfn, o, l))

s_fft_part(m, src, o, l, wfn) ==
    IF ~s_is_pow_2(l) THEN [m EXCEPT !.ret = -EINVAL]
    ELSE FftPartRun(s_init_dft(s_free_dft(m)), src, o, l, wfn)

s_fft(m, src) == s_fft_part(m, src, 0, src.samples_length, "NULL")

(***************************************************************************)
(* transform/fourier.c.  s_init_stft_result:                               *)
(*     stft->length = raw->samples_length / (w - o);                       *)
(* for o < w (the difference is unsigned).                                 *)
(***************************************************************************)
StftLength(n, w, o) == n \div (w - o)

\* The same division for every o: w - o wraps to a number larger than any
\* array length when o > w, and is 0 when o = w (where the division either
\* traps, which s_init_stft_result tests before, or yields 0).
FrameCount(n, w, o) == IF o >= w THEN 0 ELSE StftLength(n, w, o)

(***************************************************************************)
(* The s_stft_t functions.  stft->dfts is an array of s_dft_t handles:     *)
(* a function on one of them runs with m.dft set to that handle.           *)
(***************************************************************************)
\* &(stft->dfts[i])
WithFrame(m, i) == [m EXCEPT !.dft = m.stft.dfts[i + 1]]

\* back from a call on &(stft->dfts[i]); own is the caller's own m.dft
PutFrame(m, i, own) == [m EXCEPT !.stft.dfts[i + 1] = m.dft, !.dft = own]

\* s_init_stft(stft)
StftAllocated(m) ==
    IF m.heap.last = 0 THEN [m EXCEPT !.ret = -ENOMEM]
    ELSE [m EXCEPT !.stft = [NullStft EXCEPT !.ptr = m.heap.last], !.ret = 0]

s_init_stft(m) ==
    IF m.stft.ptr # 0 THEN [m EXCEPT !.ret = -EINVAL]
    ELSE StftAllocated([m EXCEPT !.heap = Malloc(m.heap, 1)])

\* s_free_stft_result(stft)
RECURSIVE FreeFrames(_, _)
FreeFrames(m, i) ==
    IF i >= m.stft.length THEN m
    ELSE IF m.stft.dfts[i + 1].ptr # 0
         THEN FreeFrames(PutFrame(s_free_dft(WithFrame(m, i)), i, m.dft), i + 1)
    ELSE FreeFrames(m, i + 1)

FramesFreed(m) ==
    [m EXCEPT !.heap = Free(m.heap, m.stft.arr), !.stft.arr = 0, !.stft.dfts = << >>]

StftResultCleared(m) ==
    [m EXCEPT !.stft.raw_length = 0, !.stft.raw_stat = EmptyStat, !.stft.length = 0]

s_free_stft_result(m) ==
    IF m.stft.arr # 0 THEN StftResultCleared(FramesFreed(FreeFrames(m, 0)))
    ELSE StftResultCleared(m)

\* s_free_stft(stft)
StftFreed(m) == [m EXCEPT !.heap = Free(m.heap, m.stft.ptr), !.stft = NullStft]

s_free_stft(m) ==
    IF m.stft.ptr = 0 THEN m ELSE StftFreed(s_free_stft_result(m))

\* s_init_stft_result(stft, raw, w, o): the loop that allocates the frames
RECURSIVE InitFrames(_, _, _)
InitFrameNext(m, w, i) ==
    IF m.ret < 0 THEN s_free_stft_result(m) ELSE InitFrames(m, w, i + 1)

InitFrameResult(m, w, i) ==
    IF m.ret < 0 THEN s_free_stft_result(m)
    ELSE InitFrameNext(PutFrame(s_init_dft_result(WithFrame(m, i), w), i, m.dft), w, i)

InitFrames(m, w, i) ==
    IF i >= m.stft.length THEN [m EXCEPT !.ret = 0]
    ELSE InitFrameResult(PutFrame(s_init_dft(WithFrame(m, i)), i, m.dft), w, i)

\* from the malloc of stft->dfts on; the pointer is stored before it is tested
StftFramesAllocated(m, w) ==
    IF m.heap.last = 0
    THEN [m EXCEPT !.stft.arr = 0, !.stft.dfts = << >>, !.ret = -ENOMEM]
    ELSE InitFrames([m EXCEPT !.stft.arr = m.heap.last,
                              !.stft.dfts = [i \in 1..m.stft.length |-> NullDft]],
                    w, 0)

StftSized(m, src, w, o) ==
    StftFramesAllocated(
        [m EXCEPT !.stft.raw_length = src.samples_length,
                  !.stft.raw_stat = src.stat,
                  !.stft.window = w,
                  !.stft.length = FrameCount(src.samples_length, w, o),
                  !.heap = Malloc(m.heap, FrameCount(src.samples_length, w, o))],
        w)

\* s_init_stft_result without the power-of-two test.
s_init_stft_result_any_window(m, src, w, o) ==
    IF o = w /\ m.env.divTraps
    THEN [m EXCEPT !.crashed = TRUE]
    ELSE StftSized(m, src, w, o)

\* s_init_stft_result with the frames counted as if they never overlapped.
s_init_stft_result_no_overlap(m, src, w, o) ==
    IF ~s_is_pow_2(w) THEN [m EXCEPT !.ret = -EINVAL]
    ELSE StftSized(m, src, w, 0)

s_init_stft_result(m, src, w, o) ==
    IF ~s_is_pow_2(w) THEN [m EXCEPT !.ret = -EINVAL]
    ELSE IF o = w /\ m.env.divTraps
         THEN [m EXCEPT !.stft.raw_length = src.samples_length,
                        !.stft.raw_stat = src.stat,
                        !.stft.window = w,
                        !.crashed = TRUE]
    ELSE StftSized(m, src, w, o)

\* s_stft(stft, raw, w, o): the loop over the frames
RECURSIVE StftFrames(_, _, _, _, _)
StftFrameDone(m, src, w, o, i) ==
    IF m.crashed THEN m
    ELSE IF m.ret < 0 THEN s_free_stft(m)
    ELSE StftFrames(m, src, w, o, i + 1)

StftFrames(m, src, w, o, i) ==
    IF i >= m.stft.length THEN [m EXCEPT !.ret = 0]
    ELSE StftFrameDone(PutFrame(s_fft_part(WithFrame(m, i), src, i * (w - o), w,
                                           "s_hann_function"), i, m.dft),
                       src, w, o, i)

StftResultDone(m, src, w, o) ==
    IF m.crashed THEN m
    ELSE IF m.ret < 0 THEN s_free_stft(m)
    ELSE StftFrames(m, src, w, o, 0)

StftInitDone(m, src, w, o) ==
    IF m.ret < 0 THEN m
    ELSE StftResultDone(s_init_stft_result(m, src, w, o), src, w, o)

s_stft(m, src, w, o) == StftInitDone(s_init_stft(s_free_stft(m)), src, w, o)

(***************************************************************************)
(* spectr/decoding/raw.c on the allocator: s_init_raw_audio,               *)
(* s_free_raw_audio and s_copy_raw_audio_window with the handle and the    *)
(* sample array as blocks.  m.rawh is the s_raw_audio_t handle.            *)
(***************************************************************************)
NullRawHandle == [ptr |-> 0, stat |-> EmptyStat, samples_length |-> 0,
                  buf |-> 0, samples |-> << >>]

\* if(r == NULL) is never true: a NULL *r is stored through.
RawAllocated(m) ==
    IF m.heap.last = 0 THEN [m EXCEPT !.crashed = TRUE]
    ELSE [m EXCEPT !.rawh = [NullRawHandle EXCEPT !.ptr = m.heap.last], !.ret = 0]

s_init_raw_audio_blocks(m) ==
    IF m.rawh.ptr # 0 THEN [m EXCEPT !.ret = -EINVAL]
    ELSE RawAllocated([m EXCEPT !.heap = Malloc(m.heap, 1)])

s_free_raw_audio_blocks(m) ==
    IF m.rawh.ptr = 0 THEN m
    ELSE [m EXCEPT !.heap = Free(IF m.rawh.buf # 0 THEN Free(m.heap, m.rawh.buf)
                                 ELSE m.heap, m.rawh.ptr),
                   !.rawh = NullRawHandle]

\* from the malloc of the samples on; r still holds s_init_raw_audio's 0
RawSamplesAllocated(m, src, o, w) ==
    IF m.heap.last = 0 THEN s_free_raw_audio_blocks(m)
    ELSE [m EXCEPT !.rawh.buf = m.heap.last,
                   !.rawh.samples = CopyLoop(Uninit(w, m.env.garbage), src, o, o, w,
                                             m.env.garbage),
                   !.ret = 0]

RawCopyInit(m, src, o, w) ==
    IF m.crashed \/ m.ret < 0 THEN m
    ELSE RawSamplesAllocated([m EXCEPT !.rawh.stat = src.stat,
                                       !.rawh.samples_length = w,
                                       !.heap = Malloc(m.heap, w)],
                             src, o, w)

s_copy_raw_audio_window_blocks(m, src, o, w) ==
    RawCopyInit(s_init_raw_audio_blocks(s_free_raw_audio_blocks(m)), src, o, w)

(***************************************************************************)
(* Inputs.  A file is a sequence of at most MaxFileLen bytes; the bytes    *)
(* tried at each position are the ones the code tells apart there.         *)
(***************************************************************************)
PosBytes(i) ==
    CASE i = 0 -> {73, 255}         \* 'I', or a frame sync at the start
      [] i = 1 -> {68, 251}         \* 'D', or the second sync byte
      [] i = 2 -> {51}              \* '3'
      [] i \in {3, 4} -> {0}        \* ID3v2 version
      [] i = 5 -> {0, 16}           \* flags: footer absent, present
      [] i \in {6, 7, 8} -> {0}     \* synchsafe size, high bytes
      [] i = 9 -> {0, 2, 130}       \* synchsafe size, low byte (0x82 decodes to 2)
      [] OTHER -> {0, 250, 251, 255}

RECURSIVE FilesOfLen(_)
FilesOfLen(n) ==
    IF n = 0 THEN {<< >>}
    ELSE {Append(f, b) : f \in FilesOfLen(n - 1), b \in PosBytes(n - 1)}

FileSet == UNION {FilesOfLen(n) : n \in 0..MaxFileLen}

\* Files tried with a failing system call.
FewFiles == {f \in FilesOfLen(MinFileSize + 2) : f[1] = 73 /\ f[10] = 0}

IoOutcomes == {"ok", "open_fails", "fstat_fails", "mmap_fails"}

\* What a read past the end of the file may yield.
JunkBytes == {0, 255}

\* What uninitialised or out-of-bounds sample memory may hold.
Garbage == {[l |-> 0, r |-> 0], [l |-> 4660, r |-> -1]}

\* The files decode is tried on: one per path through s_ftype and s_audio_stat.
GoodFile == <<255, 251, 0, 0, 0, 0, 0, 0, 0, 0>>

DecodeFiles ==
    { GoodFile,
      << >>,
      <<255, 251, 0>>,
      <<0, 0, 0, 0, 0, 0, 0, 0, 0, 0>>,
      <<255, 250, 12, 0, 0, 0, 0, 0, 0, 0>>,
      <<0, 0, 0, 0, 0, 0, 0, 0, 255, 251>>,
      <<73, 68, 51, 0, 0, 0, 0, 0, 0, 0, 255, 250, 4, 0>> }

\* PCM buffers: bytes below and above 0x80, up to MaxPcmLen of them.
PcmBytes == {1, 128}

RECURSIVE PcmOfLen(_)
PcmOfLen(n) ==
    IF n = 0 THEN {<< >>}
    ELSE {Append(p, b) : p \in PcmOfLen(n - 1), b \in PcmBytes}

PcmSet == UNION {PcmOfLen(n) : n \in 0..MaxPcmLen}

FewPcm == {<< >>, <<1, 128, 128, 1>>, <<1, 128, 1>>}

Byte == 0..255

\* The first bytes tried by the one-sample check (the second ranges over Byte).
HiBytes == {0, 1, 18, 64, 127, 128, 129, 171, 254, 255}

\* Source sample sequences of at most MaxSamples samples.
SampleValues == {[l |-> 0, r |-> 0], [l |-> 1, r |-> -2], [l |-> -32768, r |-> 32767]}

RECURSIVE SamplesOfLen(_)
SamplesOfLen(n) ==
    IF n = 0 THEN {<< >>}
    ELSE {Append(s, v) : s \in SamplesOfLen(n - 1), v \in SampleValues}

Mp3Stat == [type |-> "FTYPE_MP3", bit_depth |-> 16, sample_rate |-> 44100]

RawOf(s) == [null |-> FALSE, stat |-> Mp3Stat, samples_length |-> Len(s),
             buf |-> TRUE, samples |-> s]

SrcRaws == {RawOf(s) : s \in UNION {SamplesOfLen(n) : n \in 0..MaxSamples}}

\* The state after s_init_raw_audio on a NULL handle.
EmptyRaw == [NullRaw EXCEPT !.null = FALSE]

NoLoc == LocFail(0, {})
NoFtype == [ret |-> 0, type |-> "FTYPE_INVALID"]
NoStat == [ret |-> 0, stat |-> EmptyStat]
NoCodec == [ret |-> 0, pcm |-> << >>]
NoDec == [ret |-> 0, oob |-> FALSE]
NoSample == [soff0 |-> 0, more |-> FALSE, s |-> << >>, soff |-> 0, doff |-> 0,
             oob |-> FALSE]
NoCopy == [ret |-> 0, crashed |-> FALSE, o |-> 0, w |-> 0,
           ok1 |-> TRUE, ok2 |-> TRUE, whole |-> FALSE]

NoMono == [l |-> 0, r |-> 0, out |-> 0]
NoWin == [impl |-> "none", w |-> 0, s |-> 0, ret |-> 0, written |-> FALSE, o |-> 0]
NoHeap == [live |-> {}, failIn |-> 0, zeroNull |-> FALSE, last |-> 0, badFree |-> FALSE]
NoEnv == [garbage |-> [l |-> 0, r |-> 0], oobTraps |-> TRUE, divTraps |-> TRUE]
NoFft == [op |-> "none", k |-> 0, o |-> 0, l |-> 0, wfn |-> "NULL", dft |-> NullDft,
          copy |-> NullDft, ret |-> 0, crashed |-> FALSE, env |-> NoEnv,
          reads |-> {}, oob |-> FALSE, leaves |-> << >>, wcalls |-> << >>,
          maxDepth |-> 0, leafDepths |-> {},
          liveIn |-> {}, nullIn |-> TRUE, budget |-> 0]
NoStft == [w |-> 0, o |-> 0, h |-> NullStft]

XformUnused ==
    /\ mono = NoMono
    /\ win = NoWin
    /\ fft = NoFft
    /\ stft = NoStft
    /\ heap = NoHeap

DecodeResults0 ==
    /\ pc = "start"
    /\ locRes = NoLoc
    /\ ftypeRes = NoFtype
    /\ statRes = NoStat
    /\ decRes = NoDec
    /\ sampleRes = NoSample
    /\ copyRes = NoCopy

Results0 == DecodeResults0 /\ XformUnused

\* The decoder's variables where the transform is checked alone.
DecodeUnused ==
    /\ file = GoodFile
    /\ io = "ok"
    /\ codec = NoCodec
    /\ charSigned = TRUE
    /\ dst = NullRaw
    /\ DecodeResults0

\* The locator and its callers, over every file of FileSet.
Init ==
    /\ file \in FileSet
    /\ io \in IoOutcomes
    /\ (io # "ok" => file \in FewFiles)
    /\ codec = NoCodec
    /\ charSigned = TRUE
    /\ raw = EmptyRaw
    /\ dst = NullRaw
    /\ Results0

\* The stats reader on every header: bytes 1 and 2 range over all values.
InitHeader ==
    /\ file \in {<<255, b1, b2, 0>> : b1 \in Byte, b2 \in Byte}
    /\ io = "ok"
    /\ codec = NoCodec
    /\ charSigned = TRUE
    /\ raw = EmptyRaw
    /\ dst = NullRaw
    /\ Results0

\* Decode: every PCM buffer of PcmSet on GoodFile, a few on the other files.
InitDecode ==
    /\ \/ /\ file = GoodFile
          /\ io = "ok"
          /\ codec \in {[ret |-> 0, pcm |-> p] : p \in PcmSet}
       \/ /\ file \in DecodeFiles
          /\ io \in IoOutcomes
          /\ codec \in {[ret |-> r, pcm |-> p] : r \in {0, -EIO, -EINVAL}, p \in FewPcm}
          /\ (codec.ret < 0 => codec.pcm = << >>)
    /\ charSigned \in BOOLEAN
    /\ raw = EmptyRaw
    /\ dst = NullRaw
    /\ Results0

\* One sample: a pair of bytes as the left channel (and, swapped, as the right).
InitSample ==
    /\ file = GoodFile
    /\ io = "ok"
    /\ codec \in {[ret |-> 0, pcm |-> <<hi, lo, lo, hi, 0, 0, 0, 0>>] :
                      hi \in HiBytes, lo \in Byte}
    /\ charSigned \in BOOLEAN
    /\ raw = EmptyRaw
    /\ dst = NullRaw
    /\ Results0

\* The windowed copy: every source of SrcRaws, into a NULL or a used handle.
InitCopy ==
    /\ file = GoodFile
    /\ io = "ok"
    /\ codec = NoCodec
    /\ charSigned = TRUE
    /\ raw \in SrcRaws
    /\ dst \in {NullRaw, RawOf(<<[l |-> 7, r |-> 7]>>)}
    /\ Results0

(***************************************************************************)
(* Actions: one call of one operation.  The calls on a file are made one   *)
(* after the other, each from scratch, so that a state holds what each of  *)
(* them returned for the same file.                                        *)
(***************************************************************************)
Locate ==
    /\ pc = "start"
    /\ \E j \in JunkBytes :
          locRes' = s_get_mp3_frame_header_offset(file, io, j)
    /\ pc' = "located"
    /\ UNCHANGED <<fileVars, ftypeRes, statRes, raw, decRes, sampleRes, dst, copyRes, xformVars>>

Ftype ==
    /\ pc = "located"
    /\ \E j \in JunkBytes : ftypeRes' = s_ftype(file, io, j)
    /\ pc' = "typed"
    /\ UNCHANGED <<fileVars, locRes, statRes, raw, decRes, sampleRes, dst, copyRes, xformVars>>

AudioStat ==
    /\ pc = "typed"
    /\ \E j \in JunkBytes : statRes' = s_audio_stat(EmptyStat, file, io, j)
    /\ pc' = "stat"
    /\ UNCHANGED <<fileVars, locRes, ftypeRes, raw, decRes, sampleRes, dst, copyRes, xformVars>>

\* The stats reader from a header located at offset 0 on.
StatHeader ==
    /\ pc = "start"
    /\ statRes' = StatAtHeader(EmptyStat, file,
                               [ret |-> 0, written |-> TRUE, o |-> 0, reads |-> {}])
    /\ pc' = "stat_header"
    /\ UNCHANGED <<fileVars, locRes, ftypeRes, raw, decRes, sampleRes, dst, copyRes, xformVars>>

DecodeRawAudio ==
    /\ pc = "stat"
    /\ \E j \in JunkBytes, ok \in BOOLEAN, g \in Garbage :
          LET r == s_decode_raw_audio(raw, file, io, j, codec, charSigned, ok, g)
          IN  /\ raw' = r.raw
              /\ decRes' = [ret |-> r.ret, oob |-> r.oob]
    /\ pc' = "decoded"
    /\ UNCHANGED <<fileVars, locRes, ftypeRes, statRes, sampleRes, dst, copyRes, xformVars>>

\* One call on a two-sample array: soff0 = 0 reads a sample, soff0 = 1 is the
\* call at the end of the buffer.
ProcessNextSample ==
    /\ pc = "start"
    /\ \E soff0 \in {0, 1}, g \in Garbage :
          LET r == s_process_next_sample(Uninit(2, g), soff0, codec.pcm, 4 * soff0,
                                         Len(codec.pcm), 16, charSigned)
          IN  sampleRes' = [soff0 |-> soff0, more |-> r.more, s |-> r.s,
                            soff |-> r.soff, doff |-> r.doff, oob |-> r.oob]
    /\ pc' = "sample"
    /\ UNCHANGED <<fileVars, locRes, ftypeRes, statRes, raw, decRes, dst, copyRes, xformVars>>

CopyWindow ==
    /\ pc = "start"
    /\ \E o \in 0..MaxSamples, w \in 0..MaxSamples,
          ok1 \in BOOLEAN, ok2 \in BOOLEAN, g \in Garbage :
          LET r == s_copy_raw_audio_window(dst, raw, o, w, ok1, ok2, g)
          IN  /\ dst' = r.dst
              /\ copyRes' = [ret |-> r.ret, crashed |-> r.crashed, o |-> o, w |-> w,
                             ok1 |-> ok1, ok2 |-> ok2, whole |-> FALSE]
    /\ pc' = "copied"
    /\ UNCHANGED <<fileVars, locRes, ftypeRes, statRes, raw, decRes, sampleRes, xformVars>>

CopyAll ==
    /\ pc = "start"
    /\ \E ok1 \in BOOLEAN, ok2 \in BOOLEAN, g \in Garbage :
          LET r == s_copy_raw_audio(dst, raw, ok1, ok2, g)
          IN  /\ dst' = r.dst
              /\ copyRes' = [ret |-> r.ret, crashed |-> r.crashed, o |-> 0,
                             w |-> raw.samples_length,
                             ok1 |-> ok1, ok2 |-> ok2, whole |-> TRUE]
    /\ pc' = "copied"
    /\ UNCHANGED <<fileVars, locRes, ftypeRes, statRes, raw, decRes, sampleRes, xformVars>>

Next == Locate \/ Ftype \/ AudioStat

NextDecode == Locate \/ Ftype \/ AudioStat \/ DecodeRawAudio

NextCopy == CopyWindow \/ CopyAll

Spec == Init /\ [][Next]_vars

SpecHeader == InitHeader /\ [][StatHeader]_vars

SpecDecode == InitDecode /\ [][NextDecode]_vars

SpecSample == InitSample /\ [][ProcessNextSample]_vars

SpecCopy == InitCopy /\ [][NextCopy]_vars

(***************************************************************************)
(* What the specification says of a file, stated on the bytes alone.       *)
(***************************************************************************)
\* The frame-sync pattern at offset i, both bytes inside the file.
IsSyncAt(f, i) ==
    /\ i >= 0
    /\ i + 1 < Len(f)
    /\ f[i + 1] = 255
    /\ f[i + 2] \in {250, 251}

SyncOffsets(f) == {i \in 0..(Len(f) - 2) : IsSyncAt(f, i)}

Least(S) == CHOOSE x \in S : \A y \in S : x <= y

\* The file starts with "ID3" and holds the 10 bytes of the wrapper header.
HasWrapper(f) == Len(f) >= 10 /\ f[1] = 73 /\ f[2] = 68 /\ f[3] = 51

\* S + 10, or S + 20 with flag bit 0x10 of byte 5, S the synchsafe size at 6.
Candidate(f) ==
    (f[7] % 128) * 2097152 + (f[8] % 128) * 16384 + (f[9] % 128) * 128
    + (f[10] % 128) + (IF (f[6] \div 16) % 2 = 1 THEN 20 ELSE 10)

Located == pc # "start" /\ io = "ok"

\* C1: with an ID3v2 wrapper whose candidate offset (S + 10, or S + 20 with
\* the footer flag) holds a frame sync, the locator returns the candidate.
C1_WrapperCandidate ==
    (Located /\ HasWrapper(file) /\ IsSyncAt(file, Candidate(file)))
        => (locRes.ret = 0 /\ locRes.written /\ locRes.o = Candidate(file))

\* C2: with no wrapper, or a wrapper whose candidate holds no frame sync, the
\* locator returns the smallest offset at which the frame sync occurs.
C2_FirstSync ==
    (/\ Located
     /\ Len(file) >= 10
     /\ (~HasWrapper(file) \/ ~IsSyncAt(file, Candidate(file)))
     /\ SyncOffsets(file) # {})
        => (locRes.ret = 0 /\ locRes.written
            /\ locRes.o = Least(SyncOffsets(file)))

\* A wrapper whose size field points at non-sync bytes, the sync found later.
C2_Witness ==
    /\ Located
    /\ HasWrapper(file)
    /\ Candidate(file) + 1 < Len(file)
    /\ ~IsSyncAt(file, Candidate(file))
    /\ locRes.ret = 0
    /\ locRes.o = Least(SyncOffsets(file))
    /\ locRes.o > Candidate(file)

\* C3: on a file of at least 10 bytes the locator succeeds exactly when the
\* frame sync occurs somewhere; the offset returned holds a frame sync; with
\* no frame sync anywhere it fails with -EINVAL.
C3_SuccessIffSync ==
    (Located /\ Len(file) >= 10)
        => (/\ (locRes.ret = 0) <=> (SyncOffsets(file) # {})
            /\ locRes.ret = 0 => (locRes.written /\ IsSyncAt(file, locRes.o))
            /\ SyncOffsets(file) = {} => (locRes.ret = -EINVAL /\ ~locRes.written))

\* The only frame sync is the last two bytes of the file.
C3_Witness ==
    /\ Located
    /\ Len(file) >= 10
    /\ SyncOffsets(file) = {Len(file) - 2}
    /\ locRes.ret = 0
    /\ locRes.o = Len(file) - 2

\* C4: on a file shorter than 10 bytes the locator fails with -EIO and has
\* read no byte of the file.
C4_ShortFile ==
    (Located /\ Len(file) < 10)
        => (locRes.ret = -EIO /\ ~locRes.written /\ locRes.reads = {})

\* A 9-byte file that starts with a frame sync.
C4_Witness ==
    /\ Located
    /\ Len(file) = 9
    /\ IsSyncAt(file, 0)
    /\ locRes.ret = -EIO

\* C5, as claimed: a failure of the locator reaches the callers of s_ftype,
\* s_audio_stat and s_decode_raw_audio with the locator's own error.
C5_ErrorKindUnchanged ==
    (pc = "decoded" /\ locRes.ret < 0)
        => (/\ ftypeRes.ret = locRes.ret
            /\ statRes.ret = locRes.ret
            /\ decRes.ret = locRes.ret)

\* C5, amended: whatever the locator's error, s_ftype, s_audio_stat and
\* s_decode_raw_audio fail with -EINVAL, s_ftype's one error.
C5_LocatorFailureIsInvalidInput ==
    (pc = "decoded" /\ locRes.ret < 0)
        => (/\ ftypeRes.ret = -EINVAL
            /\ statRes.ret = -EINVAL
            /\ decRes.ret = -EINVAL)

\* A file shorter than 10 bytes: -EIO from the locator, -EINVAL from decode.
C5_Witness ==
    /\ pc = "decoded"
    /\ io = "ok"
    /\ Len(file) < 10
    /\ locRes.ret = -EIO
    /\ ftypeRes.ret = -EINVAL
    /\ statRes.ret = -EINVAL
    /\ decRes.ret = -EINVAL

\* The rate table of the specification: version code x rate code -> Hz.
RateTable(v) ==
    CASE v = 3 -> <<44100, 48000, 32000>>
      [] v = 2 -> <<22050, 24000, 16000>>
      [] v = 0 -> <<11025, 12000, 8000>>

\* C6: version = bits 0x18 of header byte 1, rate = bits 0x0C of byte 2; the
\* pair is mapped through the table, any other pair fails with -EINVAL, and
\* on success the bit depth is 16 and the type MP3.
C6_RateTable ==
    pc = "stat_header" =>
        LET v == (file[2] \div 8) % 4
            r == (file[3] \div 4) % 4
        IN  IF v \in {0, 2, 3} /\ r \in {0, 1, 2}
            THEN /\ statRes.ret = 0
                 /\ statRes.stat = [type |-> "FTYPE_MP3", bit_depth |-> 16,
                                    sample_rate |-> RateTable(v)[r + 1]]
            ELSE statRes.ret = -EINVAL

\* An MPEG2 header with rate code 2.
C6_Witness ==
    /\ pc = "stat_header"
    /\ (file[2] \div 8) % 4 = 2
    /\ (file[3] \div 4) % 4 = 2
    /\ statRes.ret = 0
    /\ statRes.stat.sample_rate = 16000

\* C7: a decoded PCM buffer whose length is no multiple of
\* 2 * (bit_depth / 8) makes s_decode_raw_audio fail with -EINVAL, and the
\* handle holds no sample array.
C7_LengthValidation ==
    (/\ pc = "decoded"
     /\ ftypeRes.ret = 0
     /\ statRes.ret = 0
     /\ codec.ret = 0
     /\ Len(codec.pcm) % (2 * (statRes.stat.bit_depth \div 8)) # 0)
        => (decRes.ret = -EINVAL /\ ~raw.buf /\ raw.samples = << >>)

\* Six bytes of PCM at 16 bits: one and a half frames.
C7_Witness ==
    /\ pc = "decoded"
    /\ statRes.ret = 0
    /\ codec.ret = 0
    /\ Len(codec.pcm) = 6
    /\ decRes.ret = -EINVAL
    /\ ~raw.buf

\* The signed 16-bit big-endian value of the bytes hi, lo.
S16(hi, lo) == hi * 256 + lo - (IF hi >= 128 THEN 65536 ELSE 0)

\* C8: at bit depth 16 the channel value s_process_next_sample stores is the
\* signed 16-bit big-endian integer of the two bytes it read, for every
\* second byte in 0..255.
C8_BigEndianSigned ==
    (pc = "sample" /\ sampleRes.soff0 = 0 /\ sampleRes.more)
        => (/\ sampleRes.s[1].l = S16(codec.pcm[1], codec.pcm[2])
            /\ sampleRes.s[1].r = S16(codec.pcm[3], codec.pcm[4]))

\* C9: after a successful decode of B bytes, samples_length = B / frame_bytes
\* and every sample i, the last one included, holds the values assembled from
\* bytes [4i, 4i + 4), left channel first.
C9_EverySampleDecoded ==
    (pc = "decoded" /\ decRes.ret = 0)
        => (/\ raw.samples_length = Len(codec.pcm) \div 4
            /\ Len(raw.samples) = raw.samples_length
            /\ \A i \in 0..(raw.samples_length - 1) :
                  raw.samples[i + 1] =
                      [l |-> ReadChannel(0, codec.pcm, 4 * i, 0, 2, charSigned),
                       r |-> ReadChannel(0, codec.pcm, 4 * i + 2, 0, 2, charSigned)])

\* C10: with o + w <= src.samples_length, s_copy_raw_audio_window makes a new
\* RawAudio of w samples, stat equal to the source's, sample j equal to the
\* source's sample o + j.
C10_WindowCopied ==
    (/\ pc = "copied"
     /\ ~copyRes.whole
     /\ copyRes.ok1 /\ copyRes.ok2
     /\ copyRes.o + copyRes.w <= raw.samples_length)
        => (/\ copyRes.ret = 0
            /\ ~dst.null
            /\ dst.samples_length = copyRes.w
            /\ dst.stat = raw.stat
            /\ Len(dst.samples) = copyRes.w
            /\ \A k \in 0..(copyRes.w - 1) :
                  dst.samples[k + 1] = raw.samples[copyRes.o + k + 1])

(***************************************************************************)
(* The mono downmix and the window size, each called once on its inputs.   *)
(***************************************************************************)
\* Channel values at the ends and in the middle of int32_t.
Int32Values ==
    {-2147483647 - 1, -2147483647, -65537, -32768, -3, -2, -1,
     0, 1, 2, 3, 32767, 65536, 2147483646, 2147483647}

InitMono ==
    /\ mono \in {[l |-> a, r |-> b, out |-> 0] : a \in Int32Values, b \in Int32Values}
    /\ win = NoWin
    /\ fft = NoFft
    /\ stft = NoStft
    /\ heap = NoHeap
    /\ raw = EmptyRaw
    /\ DecodeUnused

MonoSample ==
    /\ pc = "start"
    /\ mono' = [mono EXCEPT !.out = s_mono_sample([l |-> mono.l, r |-> mono.r])]
    /\ pc' = "mono"
    /\ UNCHANGED <<fileVars, locRes, ftypeRes, statRes, raw, decRes, sampleRes, dst,
                   copyRes, win, fft, stft, heap>>

SpecMono == InitMono /\ [][MonoSample]_vars

\* Spectrogram widths and sample counts around the widths' multiples.
WidthValues == {1, 2, 3, 5, 8, 800}

CountValues == (0..40) \cup {99, 100, 799, 800, 801, 1599, 1600, 88200}

InitWindow ==
    /\ win \in {[NoWin EXCEPT !.w = w, !.s = n] : w \in WidthValues, n \in CountValues}
    /\ mono = NoMono
    /\ fft = NoFft
    /\ stft = NoStft
    /\ heap = NoHeap
    /\ raw = EmptyRaw
    /\ DecodeUnused

\* util/math.c: s_get_window_size(&o, w, s)
GetWindowSize ==
    /\ pc = "start"
    /\ win' = [impl |-> "util/math.c", w |-> win.w, s |-> win.s,
               ret |-> s_get_window_size(win.w, win.s).ret,
               written |-> s_get_window_size(win.w, win.s).written,
               o |-> s_get_window_size(win.w, win.s).o]
    /\ pc' = "window"
    /\ UNCHANGED <<fileVars, locRes, ftypeRes, statRes, raw, decRes, sampleRes, dst,
                   copyRes, mono, fft, stft, heap>>

\* spectr/transform/attr.c: s_get_window_size(&o, w, h, s), h the view height
GetWindowSizeAttr ==
    /\ pc = "start"
    /\ \E h \in {1, 600} :
          win' = [impl |-> "spectr/transform/attr.c", w |-> win.w, s |-> win.s,
                  ret |-> s_get_window_size_attr(win.w, h, win.s).ret,
                  written |-> s_get_window_size_attr(win.w, h, win.s).written,
                  o |-> s_get_window_size_attr(win.w, h, win.s).o]
    /\ pc' = "window"
    /\ UNCHANGED <<fileVars, locRes, ftypeRes, statRes, raw, decRes, sampleRes, dst,
                   copyRes, mono, fft, stft, heap>>

NextWindow == GetWindowSize \/ GetWindowSizeAttr

SpecWindow == InitWindow /\ [][NextWindow]_vars

(***************************************************************************)
(* What the specification says of the downmix and of the window size.      *)
(***************************************************************************)
\* floor((a + b) / 2) without forming a + b.
FloorHalfSum(a, b) == (a \div 2) + (b \div 2) + (((a % 2) + (b % 2)) \div 2)

Min2(a, b) == IF a <= b THEN a ELSE b
Max2(a, b) == IF a <= b THEN b ELSE a

\* C14: for all 32-bit left and right values s_mono_sample returns
\* floor((left + right) / 2), which lies between the two values and equals
\* them when they are equal.
C14_MonoAverage ==
    pc = "mono" =>
        /\ mono.out = FloorHalfSum(mono.l, mono.r)
        /\ Min2(mono.l, mono.r) <= mono.out
        /\ mono.out <= Max2(mono.l, mono.r)
        /\ (mono.l = mono.r => mono.out = mono.l)

\* Both channels at INT32_MAX: the 32-bit sum would overflow.
C14_Witness ==
    /\ pc = "mono"
    /\ mono.l = 2147483647
    /\ mono.r = 2147483647
    /\ mono.out = 2147483647

\* The largest power of two that is <= x, for x >= 1.
LargestPow2(x) ==
    CHOOSE q \in {2 ^ k : k \in 0..30} : q <= x /\ (q = 2 ^ 30 \/ 2 * q > x)

\* C16: s_get_window_size with width p >= 1 and sample count s fails with
\* -EINVAL exactly when s < p, and otherwise returns the largest power of two
\* that is <= floor(s / p).
C16_WindowSize ==
    (pc = "window" /\ win.w >= 1) =>
        /\ (win.ret = -EINVAL) <=> (win.s < win.w)
        /\ win.s >= win.w =>
              (win.ret = 0 /\ win.written /\ win.o = LargestPow2(win.s \div win.w))

\* C17: for width p >= 1 and s >= p samples the window w that util/math.c's
\* s_get_window_size chooses gives at least p frames at overlap 0, and the
\* window 2w would give fewer than p.
C17_FramePerColumn ==
    (/\ pc = "window"
     /\ win.impl = "util/math.c"
     /\ win.w >= 1
     /\ win.s >= win.w)
        => (/\ win.ret = 0
            /\ s_is_pow_2(win.o)
            /\ StftLength(win.s, win.o, 0) >= win.w
            /\ StftLength(win.s, 2 * win.o, 0) < win.w)

\* 88200 samples on 800 columns: window 64, 1378 frames; 128 would give 689.
C17_Witness ==
    /\ pc = "window"
    /\ win.impl = "util/math.c"
    /\ win.w = 800
    /\ win.s = 88200
    /\ win.o = 64
    /\ StftLength(win.s, win.o, 0) = 1378

(***************************************************************************)
(* The transform: s_fft and s_fft_part on a DFT handle, s_stft and          *)
(* s_init_stft_result on an STFT handle, over the sample arrays of         *)
(* TransformRaws.  The DFT handle starts NULL, the STFT handle as          *)
(* s_init_stft leaves it.  fft.budget is the number of calls still to be   *)
(* made; fft and stft hold the arguments and the outcome of the latest     *)
(* call (fft.k: which of its mallocs was made to fail, 0 for none;         *)
(* fft.liveIn: the blocks allocated when it was made; fft.nullIn: whether  *)
(* the handle it was given was NULL).                                      *)
(***************************************************************************)
MaxXformLen == 4
MaxFailIn == 3
MaxOffset == 1
MaxStftWindow == 9

Both(x) == [l |-> x, r |-> x]

XformValues == {[l |-> 1, r |-> 2], Both(-3)}

RECURSIVE XformSamplesOfLen(_)
XformSamplesOfLen(n) ==
    IF n = 0 THEN {<< >>}
    ELSE {Append(s, v) : s \in XformSamplesOfLen(n - 1), v \in XformValues}

\* a, a + 1, ..., a + n - 1
Ramp(a, n) == [i \in 1..n |-> Both(a + i - 1)]

\* n samples, all 0 but the one at index p
Impulse(n, p) == [i \in 1..n |-> Both(IF i = p + 1 THEN 5 ELSE 0)]

LongSamples == {Ramp(0, 8), Ramp(-8, 16), Impulse(8, 3), Impulse(16, 5)}

TransformRaws ==
    {RawOf(s) : s \in UNION {XformSamplesOfLen(n) : n \in 0..MaxXformLen} \cup LongSamples}

Envs == {[garbage |-> [l |-> 0, r |-> 0], oobTraps |-> TRUE, divTraps |-> TRUE],
         [garbage |-> [l |-> 4660, r |-> -1], oobTraps |-> FALSE, divTraps |-> FALSE]}

Windows == {"NULL", "caller", "s_hann_function"}

InitTransform ==
    /\ raw \in TransformRaws
    /\ heap \in {[NoHeap EXCEPT !.zeroNull = z, !.live = {1}] : z \in BOOLEAN}
    /\ fft \in {[NoFft EXCEPT !.env = e, !.budget = 1] : e \in Envs}
    /\ stft = [NoStft EXCEPT !.h = [NullStft EXCEPT !.ptr = 1]]
    /\ mono = NoMono
    /\ win = NoWin
    /\ DecodeUnused

\* The machine a call starts on; k: which malloc of the call fails.
Start(k) ==
    [heap |-> [heap EXCEPT !.failIn = k, !.last = 0], dft |-> fft.dft, stft |-> stft.h,
     ret |-> 0, crashed |-> FALSE, env |-> fft.env,
     reads |-> {}, oob |-> FALSE, leaves |-> << >>, wcalls |-> << >>,
     depth |-> 0, maxDepth |-> 0, leafDepths |-> {}]

\* The state a call leaves: r is the machine it ends on.
Ended(r, op, k, nullIn) ==
    [fft EXCEPT !.op = op, !.k = k, !.dft = r.dft,
                !.ret = r.ret, !.crashed = r.crashed, !.reads = r.reads,
                !.oob = r.oob, !.leaves = r.leaves, !.wcalls = r.wcalls,
                !.maxDepth = r.maxDepth, !.leafDepths = r.leafDepths,
                !.liveIn = heap.live, !.nullIn = nullIn,
                !.budget = @ - 1]

Ran(r, op, k, o, l, wfn) ==
    /\ heap' = [r.heap EXCEPT !.failIn = 0]
    /\ fft' = [Ended(r, op, k, fft.dft.ptr = 0) EXCEPT !.o = o, !.l = l, !.wfn = wfn]
    /\ stft' = [stft EXCEPT !.h = r.stft]
    /\ pc' = "transform"
    /\ UNCHANGED <<decodeVars, raw, mono, win>>

RanStft(r, op, k, w, o) ==
    /\ heap' = [r.heap EXCEPT !.failIn = 0]
    /\ fft' = Ended(r, op, k, stft.h.ptr = 0)
    /\ stft' = [w |-> w, o |-> o, h |-> r.stft]
    /\ pc' = "transform"
    /\ UNCHANGED <<decodeVars, raw, mono, win>>

CanCall == pc \in {"start", "transform"} /\ fft.budget > 0 /\ ~fft.crashed

Fft ==
    /\ CanCall
    /\ \E k \in 0..MaxFailIn :
          Ran(s_fft(Start(k), raw), "s_fft", k, 0, raw.samples_length, "NULL")

FftPart ==
    /\ CanCall
    /\ \E k \in 0..MaxFailIn, o \in 0..MaxOffset, l \in 0..(raw.samples_length + 1),
          wfn \in Windows :
          /\ wfn = "s_hann_function" => l <= MaxHannLen
          /\ Ran(s_fft_part(Start(k), raw, o, l, wfn), "s_fft_part", k, o, l, wfn)

\* s_stft always applies s_hann_function, whose coefficients the model
\* holds for windows up to MaxHannLen.
Stft ==
    /\ CanCall
    /\ \E k \in 0..MaxFailIn, w \in 0..MaxStftWindow, o \in 0..(MaxHannLen + 1) :
          /\ s_is_pow_2(w) => w <= MaxHannLen
          /\ o <= w + 1
          /\ RanStft(s_stft(Start(k), raw, w, o), "s_stft", k, w, o)

\* s_init_stft_result is given a pointer to an s_stft_t.
InitStftResult ==
    /\ CanCall
    /\ stft.h.ptr # 0
    /\ stft.h.arr = 0
    /\ \E k \in 0..MaxFailIn, w \in 0..MaxStftWindow, o \in 0..(MaxHannLen + 1) :
          /\ o <= w + 1
          /\ RanStft(s_init_stft_result(Start(k), raw, w, o), "s_init_stft_result", k, w, o)

NextTransform == Fft \/ FftPart \/ Stft \/ InitStftResult

SpecTransform == InitTransform /\ [][NextTransform]_vars

(***************************************************************************)
(* Sequences of calls on the handles: a DFT handle (fft.dft), the DFT      *)
(* handle s_copy_dft copies it to (fft.copy), an STFT handle (stft.h) and  *)
(* the raw audio handle s_copy_raw_audio_window copies to (dst).  All      *)
(* handles start NULL; MaxCalls calls are made, in any order, each with    *)
(* any one of its first MaxHeapFailIn mallocs failing or none.             *)
(***************************************************************************)
MaxCalls == 3
MaxHeapFailIn == 7

HeapSamples == {<<[l |-> 1, r |-> 2], Both(-3)>>}

InitHeap ==
    /\ raw \in {RawOf(s) : s \in HeapSamples}
    /\ heap \in {[NoHeap EXCEPT !.zeroNull = z] : z \in BOOLEAN}
    /\ fft = [NoFft EXCEPT !.env = CHOOSE e \in Envs : ~e.oobTraps, !.budget = MaxCalls]
    /\ stft = NoStft
    /\ dst = NullRawHandle
    /\ mono = NoMono
    /\ win = NoWin
    /\ file = GoodFile
    /\ io = "ok"
    /\ codec = NoCodec
    /\ charSigned = TRUE
    /\ DecodeResults0

\* The machine of a call on the handle s_copy_dft copies to.
StartCopy(k) == [Start(k) EXCEPT !.dft = fft.copy]

RanCopy(r, op, k) ==
    /\ heap' = [r.heap EXCEPT !.failIn = 0]
    /\ fft' = [Ended(r, op, k, fft.copy.ptr = 0) EXCEPT !.dft = fft.dft, !.copy = r.dft]
    /\ pc' = "transform"
    /\ UNCHANGED <<decodeVars, raw, mono, win, stft>>

\* The machine of a call on the raw audio handle.
StartRaw(k) ==
    [heap |-> [heap EXCEPT !.failIn = k, !.last = 0], rawh |-> dst,
     ret |-> 0, crashed |-> FALSE, env |-> fft.env]

RanRaw(r, op, k) ==
    /\ heap' = [r.heap EXCEPT !.failIn = 0]
    /\ fft' = [fft EXCEPT !.op = op, !.k = k, !.ret = r.ret, !.crashed = r.crashed,
                          !.liveIn = heap.live, !.nullIn = (dst.ptr = 0),
                          !.budget = @ - 1]
    /\ dst' = r.rawh
    /\ pc' = "transform"
    /\ UNCHANGED <<fileVars, locRes, ftypeRes, statRes, decRes, sampleRes, copyRes,
                   raw, mono, win, stft>>

InitDft ==
    /\ CanCall
    /\ \E k \in 0..1 : Ran(s_init_dft(Start(k)), "s_init_dft", k, 0, 0, "NULL")

FreeDft ==
    /\ CanCall
    /\ Ran(s_free_dft(Start(0)), "s_free_dft", 0, 0, 0, "NULL")

HeapFftPart ==
    /\ CanCall
    /\ \E k \in 0..3, l \in 1..2 :
          Ran(s_fft_part(Start(k), raw, 0, l, "s_hann_function"), "s_fft_part", k, 0, l,
              "s_hann_function")

\* s_copy_dft is given a pointer to an s_dft_t as its source.
CopyDft ==
    /\ CanCall
    /\ fft.dft.ptr # 0
    /\ \E k \in 0..2 : RanCopy(s_copy_dft(StartCopy(k), fft.dft), "s_copy_dft", k)

FreeDftCopy ==
    /\ CanCall
    /\ RanCopy(s_free_dft(StartCopy(0)), "s_free_dft", 0)

InitStft ==
    /\ CanCall
    /\ \E k \in 0..1 : RanStft(s_init_stft(Start(k)), "s_init_stft", k, 0, 0)

FreeStft ==
    /\ CanCall
    /\ RanStft(s_free_stft(Start(0)), "s_free_stft", 0, 0, 0)

HeapStft ==
    /\ CanCall
    /\ \E k \in 0..MaxHeapFailIn, w \in 1..3, o \in 0..1 :
          /\ o < w
          /\ ~s_is_pow_2(w) => k <= 1
          /\ w # 1 => k <= 3
          /\ RanStft(s_stft(Start(k), raw, w, o), "s_stft", k, w, o)

InitRawAudio ==
    /\ CanCall
    /\ \E k \in 0..1 : RanRaw(s_init_raw_audio_blocks(StartRaw(k)), "s_init_raw_audio", k)

FreeRawAudio ==
    /\ CanCall
    /\ RanRaw(s_free_raw_audio_blocks(StartRaw(0)), "s_free_raw_audio", 0)

HeapCopyWindow ==
    /\ CanCall
    /\ \E k \in 0..2, w \in {0, 2} :
          RanRaw(s_copy_raw_audio_window_blocks(StartRaw(k), raw, 0, w),
                 "s_copy_raw_audio_window", k)

NextHeap ==
    \/ InitDft \/ FreeDft \/ HeapFftPart \/ CopyDft \/ FreeDftCopy
    \/ InitStft \/ FreeStft \/ HeapStft
    \/ InitRawAudio \/ FreeRawAudio \/ HeapCopyWindow

SpecHeap == InitHeap /\ [][NextHeap]_vars

(***************************************************************************)
(* C19: whenever a malloc fails inside an operation that allocates, the    *)
(* operation returns -ENOMEM, never success, and does not go on to use the *)
(* buffer that failed to allocate.  Stated on s_copy_raw_audio_window and  *)
(* s_copy_raw_audio, whose two mallocs are the handle (ok1, in             *)
(* s_init_raw_audio) and the sample array (ok2).                           *)
(***************************************************************************)
C19_AllocFailureReported ==
    (pc = "copied" /\ (~copyRes.ok1 \/ ~copyRes.ok2))
        => (copyRes.ret = -ENOMEM /\ ~copyRes.crashed)

IsPow2(v) == \E e \in 0..30 : v = 2 ^ e

\* No frames, in a build whose malloc(0) returns NULL.
EmptyArrayIsNull ==
    heap.zeroNull /\ FrameCount(raw.samples_length, stft.w, stft.o) = 0

(***************************************************************************)
(* C11: s_fft_part (and s_fft) fail with -EINVAL for every length that is  *)
(* not a power of two, 0 included, and s_stft and s_init_stft_result for   *)
(* every such window; every power of two >= 1 is accepted.  A rejected     *)
(* s_fft_part leaves the handle as it was, and after a rejected s_stft the *)
(* handle is NULL.  (In s_stft the handle is allocated before the window   *)
(* is tested: when that malloc fails, fft.k = 1, the call fails with       *)
(* -ENOMEM whatever the window.)  An accepted call succeeds when no malloc *)
(* fails and nothing traps; EmptyArrayIsNull is the case of no frames in a *)
(* build whose malloc(0) returns NULL, which ends in -ENOMEM.              *)
(***************************************************************************)
C11_PowerOfTwoLengths ==
    pc = "transform" =>
        /\ fft.op \in {"s_fft", "s_fft_part"} =>
              /\ ~IsPow2(fft.l) => (fft.ret = -EINVAL /\ fft.dft = NullDft)
              /\ IsPow2(fft.l) => fft.ret # -EINVAL
              /\ (IsPow2(fft.l) /\ fft.k = 0 /\ ~fft.crashed) =>
                     (fft.ret = 0 /\ fft.dft.length = fft.l)
        /\ fft.op = "s_stft" =>
              /\ ~IsPow2(stft.w) =>
                     /\ fft.ret = (IF fft.k = 1 THEN -ENOMEM ELSE -EINVAL)
                     /\ stft.h = NullStft
              /\ IsPow2(stft.w) => fft.ret # -EINVAL
              /\ (IsPow2(stft.w) /\ fft.k = 0 /\ ~fft.crashed /\ ~EmptyArrayIsNull) =>
                     fft.ret = 0
        /\ fft.op = "s_init_stft_result" =>
              /\ ~IsPow2(stft.w) => fft.ret = -EINVAL
              /\ IsPow2(stft.w) => fft.ret # -EINVAL
              /\ (IsPow2(stft.w) /\ fft.k = 0 /\ ~fft.crashed /\ ~EmptyArrayIsNull) =>
                     (fft.ret = 0 /\ stft.h.window = stft.w)

C11_Witness ==
    /\ pc = "transform" /\ fft.op = "s_stft"
    /\ stft.w = 6 /\ fft.ret = -EINVAL /\ stft.h.ptr = 0

(***************************************************************************)
(* The discrete Fourier transform by its definition,                       *)
(*     X[k] = sum over n < N of x[n] e^(-2 pi j k n / N),                  *)
(* in exact arithmetic, on the mono samples in quarters.                   *)
(***************************************************************************)
RECURSIVE NaiveSum(_, _, _, _)
NaiveSum(s, N, k, n) ==
    IF n = N THEN Zero8
    ELSE RingAdd(RingScale(4 * s_mono_sample(s[n + 1]), Unit(k * n * (16 \div N))),
                 NaiveSum(s, N, k, n + 1))

NaiveBin(s, N, k) == NaiveSum(s, N, k, 0)

Abs(x) == IF x < 0 THEN -x ELSE x

Norm1(c) == Abs(c[1]) + Abs(c[2]) + Abs(c[3]) + Abs(c[4])
          + Abs(c[5]) + Abs(c[6]) + Abs(c[7]) + Abs(c[8])

\* The real part of c is the rational r (in quarters): the real parts of
\* z^j and z^(8 - j) are opposite, and 1, cos(pi/8), cos(pi/4), cos(3 pi/8)
\* are linearly independent over the rationals.
RealPartIs(c, r) == c[1] = 4 * r /\ c[2] = c[8] /\ c[3] = c[7] /\ c[4] = c[6]

\* The imaginary part of c is 0.
ImagPartIsZero(c) == c[5] = 0 /\ c[2] = -c[8] /\ c[3] = -c[7] /\ c[4] = -c[6]

\* The complex conjugate: conj(z^j) = z^(16 - j) = -z^(8 - j).
Conj(c) == [k \in 1..8 |-> IF k = 1 THEN c[1] ELSE -c[10 - k]]

FftSucceeded == pc = "transform" /\ fft.op = "s_fft" /\ fft.ret = 0 /\ ~fft.crashed

(***************************************************************************)
(* C12: for every power-of-two N and every input, the output of s_fft at   *)
(* each bin equals the DFT computed by its definition within 1e-4: the     *)
(* values agree in exact arithmetic, and the deviation that comes from     *)
(* M_PI is at most 10^6 units of (pi - M_PI) / 8 quarters, about 4e-12.    *)
(* The ramp 0..7 gives the real parts 28, -4, ..., -4 and the ramp -8..7   *)
(* gives real parts that are all -8.                                       *)
(***************************************************************************)
C12_FftEqualsNaiveDft ==
    FftSucceeded =>
        /\ fft.dft.length = raw.samples_length
        /\ Len(fft.dft.vals) = raw.samples_length
        /\ \A k \in 0..(raw.samples_length - 1) :
              /\ fft.dft.vals[k + 1].v = NaiveBin(raw.samples, raw.samples_length, k)
              /\ ~fft.dft.vals[k + 1].nan
              /\ Norm1(fft.dft.vals[k + 1].d) <= 1000000
        /\ raw.samples = Ramp(0, 8) =>
              \A k \in 0..7 : RealPartIs(fft.dft.vals[k + 1].v, IF k = 0 THEN 28 ELSE -4)
        /\ raw.samples = Ramp(-8, 16) =>
              \A k \in 0..15 : RealPartIs(fft.dft.vals[k + 1].v, -8)

C12_Witness ==
    /\ FftSucceeded
    /\ raw.samples = Ramp(0, 8)
    /\ RealPartIs(fft.dft.vals[1].v, 28)
    /\ RealPartIs(fft.dft.vals[8].v, -4)

(***************************************************************************)
(* C13: for every power-of-two N and every real input the result holds all *)
(* N bins, and values[k] is the complex conjugate of values[(N - k) mod N] *)
(* for all k.  DftComputed: a transform has succeeded and every value is a *)
(* number.                                                                 *)
(***************************************************************************)
DftComputed ==
    /\ pc = "transform" /\ fft.op \in {"s_fft", "s_fft_part"}
    /\ fft.ret = 0 /\ ~fft.crashed
    /\ \A k \in 1..Len(fft.dft.vals) : ~fft.dft.vals[k].nan

Mirror(k, N) == ((N - k) % N) + 1

\* As stated: the doubles are equal, so the deviations are conjugate too.
C13_ConjugateSymmetric ==
    DftComputed =>
        /\ Len(fft.dft.vals) = fft.l
        /\ \A k \in 0..(fft.l - 1) :
              /\ fft.dft.vals[k + 1].v = Conj(fft.dft.vals[Mirror(k, fft.l)].v)
              /\ fft.dft.vals[k + 1].d = Conj(fft.dft.vals[Mirror(k, fft.l)].d)

\* Amended: values[k] and the conjugate of values[(N - k) mod N] are equal
\* in exact arithmetic, and differ in doubles by rounding only (the deviation
\* is at most 10^8 units of (pi - M_PI) / 8 quarters, about 4e-10).
C13_ConjugateSymmetricUpToRounding ==
    DftComputed =>
        /\ Len(fft.dft.vals) = fft.l
        /\ \A k \in 0..(fft.l - 1) :
              /\ fft.dft.vals[k + 1].v = Conj(fft.dft.vals[Mirror(k, fft.l)].v)
              /\ Norm1(fft.dft.vals[k + 1].d) <= 100000000

C13_Witness ==
    /\ DftComputed
    /\ fft.l = 8
    /\ fft.dft.vals[2].v # fft.dft.vals[8].v
    /\ fft.dft.vals[2].v = Conj(fft.dft.vals[8].v)

(***************************************************************************)
(* The DFT, by its definition, of the N samples from index o on, each      *)
(* multiplied by the window coefficient of its position in the window.     *)
(***************************************************************************)
RECURSIVE WindowedSum(_, _, _, _, _, _, _)
WindowedSum(src, g, o, N, wfn, k, n) ==
    IF n = N THEN Zero8
    ELSE RingAdd(RingScale(s_mono_sample(SrcSample(src, o + n, g)) * WindowCall(wfn, n, N).q,
                           Unit(k * n * (16 \div N))),
                 WindowedSum(src, g, o, N, wfn, k, n + 1))

WindowedRun ==
    /\ pc = "transform" /\ fft.op = "s_fft_part" /\ fft.wfn # "NULL"
    /\ fft.ret = 0 /\ ~fft.crashed

(***************************************************************************)
(* C18: in a windowed transform of the N samples from index o on, the      *)
(* sample at absolute index o + j is multiplied by wfn(j, N), the position *)
(* in the original window and the original window length, at every depth  *)
(* of the recursion; every j in 0..N-1 is used exactly once, and the       *)
(* length or stride of a sub-problem is never passed to wfn.               *)
(***************************************************************************)
C18_WindowArguments ==
    WindowedRun =>
        /\ Len(fft.leaves) = fft.l
        /\ Len(fft.wcalls) = fft.l
        /\ \A i \in 1..fft.l : fft.wcalls[i] = <<fft.leaves[i] - fft.o, fft.l>>
        /\ {fft.wcalls[i][1] : i \in 1..fft.l} = 0..(fft.l - 1)
        /\ \A k \in 0..(fft.l - 1) :
              fft.dft.vals[k + 1].v =
                  WindowedSum(raw, fft.env.garbage, fft.o, fft.l, fft.wfn, k, 0)

C18_Witness ==
    /\ WindowedRun
    /\ fft.l = 16
    /\ fft.wcalls[16] = <<15, 16>>
    /\ fft.wcalls[2] = <<8, 16>>

(***************************************************************************)
(* C15: a successful s_stft over n samples with window w and overlap       *)
(* o < w returns exactly floor(n / (w - o)) frames, each of which is a DFT *)
(* of length w: of the w samples from index i * (w - o) on, under the Hann *)
(* window.                                                                 *)
(***************************************************************************)
StftSucceeded ==
    /\ pc = "transform" /\ fft.op = "s_stft" /\ fft.ret = 0 /\ ~fft.crashed
    /\ stft.o < stft.w

C15_FrameCount ==
    StftSucceeded =>
        /\ stft.h.ptr # 0
        /\ stft.h.window = stft.w
        /\ stft.h.length = raw.samples_length \div (stft.w - stft.o)
        /\ Len(stft.h.dfts) = stft.h.length
        /\ \A i \in 1..stft.h.length :
              /\ stft.h.dfts[i].ptr # 0
              /\ stft.h.dfts[i].buf # 0
              /\ stft.h.dfts[i].length = stft.w
              /\ Len(stft.h.dfts[i].vals) = stft.w
              /\ stft.w > 1 =>
                    \A k \in 0..(stft.w - 1) :
                       stft.h.dfts[i].vals[k + 1].v =
                           WindowedSum(raw, fft.env.garbage, (i - 1) * (stft.w - stft.o),
                                       stft.w, "s_hann_function", k, 0)

C15_Witness ==
    /\ StftSucceeded
    /\ raw.samples_length = 8 /\ stft.w = 4 /\ stft.o = 1
    /\ stft.h.length = 2 /\ ~fft.oob
    /\ stft.h.dfts[2].length = 4

(***************************************************************************)
(* The blocks a handle owns: the structure it points to and the buffers    *)
(* that structure points to.                                               *)
(***************************************************************************)
BlockSeq(p) == IF p = 0 THEN << >> ELSE <<p>>

OwnedByDft(d) == BlockSeq(d.ptr) \o BlockSeq(d.buf)

RECURSIVE OwnedByFrames(_, _)
OwnedByFrames(dfts, i) ==
    IF i > Len(dfts) THEN << >> ELSE OwnedByDft(dfts[i]) \o OwnedByFrames(dfts, i + 1)

OwnedByStft(h) == BlockSeq(h.ptr) \o BlockSeq(h.arr) \o OwnedByFrames(h.dfts, 1)

OwnedByRaw(h) == BlockSeq(h.ptr) \o BlockSeq(h.buf)

Owned ==
    OwnedByDft(fft.dft) \o OwnedByDft(fft.copy) \o OwnedByStft(stft.h) \o OwnedByRaw(dst)

(***************************************************************************)
(* C20: over every sequence of init, compute and free calls on the raw     *)
(* audio, DFT and STFT handles, calls that fail part-way included, every   *)
(* buffer is released exactly once: no pointer is freed that is not an     *)
(* allocated block (no double free); the allocated blocks are exactly the  *)
(* blocks the handles own, each owned once, so that nothing a freed or     *)
(* failed handle owned stays allocated; a handle is NULL after its free    *)
(* function; and a free function called on a NULL handle changes nothing.  *)
(***************************************************************************)
C20_ReleasedExactlyOnce ==
    /\ ~heap.badFree
    /\ heap.live = {Owned[i] : i \in 1..Len(Owned)}
    /\ Cardinality(heap.live) = Len(Owned)
    /\ fft.dft.ptr = 0 => fft.dft = NullDft
    /\ fft.copy.ptr = 0 => fft.copy = NullDft
    /\ stft.h.ptr = 0 => stft.h = NullStft
    /\ dst.ptr = 0 => dst = NullRawHandle
    /\ (pc = "transform" /\ fft.op \in {"s_free_dft", "s_free_stft", "s_free_raw_audio"}) =>
           /\ fft.nullIn => heap.live = fft.liveIn
           /\ heap.live \subseteq fft.liveIn

\* An s_stft over an earlier result that fails at its seventh malloc, the
\* first one of the transform of frame 0: everything is released.
C20_Witness ==
    /\ pc = "transform" /\ fft.op = "s_stft" /\ fft.k = 7 /\ fft.ret = -ENOMEM
    /\ stft.w = 1 /\ stft.h.ptr = 0
    /\ Cardinality(fft.liveIn) >= 4
    /\ heap.live = {}

(***************************************************************************)
(* The shape of the recursion of the latest s_fft or s_fft_part: the       *)
(* deepest frame below the first call's is at depth log2(l), every base    *)
(* case ran at that depth, and the base cases ran once for each index of   *)
(* the window [o, o + l).                                                  *)
(***************************************************************************)
Log2(v) == CHOOSE e \in 0..30 : v = 2 ^ e

FftRecursed ==
    /\ pc = "transform" /\ fft.op \in {"s_fft", "s_fft_part"}
    /\ IsPow2(fft.l)
    /\ fft.o + fft.l <= raw.samples_length
    /\ fft.leaves # << >>

RecursionShape ==
    /\ fft.maxDepth = Log2(fft.l)
    /\ fft.leafDepths = {Log2(fft.l)}
    /\ Len(fft.leaves) = fft.l
    /\ {fft.leaves[i] : i \in 1..Len(fft.leaves)} = fft.o..(fft.o + fft.l - 1)

StftRan ==
    /\ pc = "transform" /\ fft.op = "s_stft"
    /\ IsPow2(stft.w) /\ stft.o < stft.w

(***************************************************************************)
(* C22: for every raw audio of n samples, power-of-two window w and        *)
(* overlap o with 0 <= o < w, every sample index that s_stft reads lies in *)
(* [0, n): for each frame i < n / (w - o), the window                      *)
(* [i (w - o), i (w - o) + w) is contained in the sample sequence.         *)
(***************************************************************************)
C22_ReadsInBounds ==
    StftRan =>
        /\ ~fft.oob
        /\ \A x \in fft.reads : x < raw.samples_length
        /\ \A i \in 0..(FrameCount(raw.samples_length, stft.w, stft.o) - 1) :
              i * (stft.w - stft.o) + stft.w <= raw.samples_length

\* The same without overlap.
ReadsInBoundsNoOverlap ==
    (StftRan /\ stft.o = 0) =>
        /\ ~fft.oob
        /\ \A x \in fft.reads : x < raw.samples_length
        /\ \A i \in 0..(FrameCount(raw.samples_length, stft.w, stft.o) - 1) :
              i * (stft.w - stft.o) + stft.w <= raw.samples_length

(***************************************************************************)
(* C23: for every file on which s_audio_stat succeeds, the version code of *)
(* the located header is 3 (MPEG1) and the sample rate is one of 44100,    *)
(* 48000 and 32000: the locator accepts a second header byte of 0xFB or    *)
(* 0xFA only, so the MPEG2 and MPEG2.5 rows of the rate table are never    *)
(* reached through s_audio_stat.                                           *)
(***************************************************************************)
C23_StatIsMpeg1 ==
    (pc = "stat" /\ statRes.ret = 0) =>
        /\ locRes.ret = 0
        /\ file[locRes.o + 2] \in {250, 251}
        /\ HeaderVersion(file[locRes.o + 2]) = 3
        /\ statRes.stat.sample_rate \in {44100, 48000, 32000}
        /\ statRes.stat.sample_rate = RateTable(3)[HeaderRate(file[locRes.o + 3]) + 1]

\* A header found by the scan, at offset 10, with rate code 2.
C23_Witness ==
    /\ pc = "stat" /\ statRes.ret = 0
    /\ locRes.o = 10
    /\ file[11] = 255 /\ file[12] = 250
    /\ statRes.stat.sample_rate = 32000

(***************************************************************************)
(* decoding/quirks/mp3.c, the output side of the libmad decoder.           *)
(* s_mad_scale rounds a fixed-point sample (MAD_F_FRACBITS = 28 fraction   *)
(* bits, MAD_F_ONE = 2^28) to 16 bits: it adds 2^12, clips to              *)
(* [-2^28, 2^28 - 1] and shifts right by 13.                               *)
(***************************************************************************)
s_mad_scale(sample) ==
    IF sample + 4096 >= 268435456 THEN 268435455 \div 8192
    ELSE IF sample + 4096 < -268435456 THEN (-268435456) \div 8192
    ELSE (sample + 4096) \div 8192

\* outbuf[0] = sample & 0xFF; outbuf[1] = (sample >> 8) & 0xFF;
SampleBytes(sample) == <<sample % 256, (sample \div 256) % 256>>

\* while(nsamples--): the left channel, and the right one of a stereo frame
RECURSIVE MadOutputLoop(_, _, _, _)
MadOutputLoop(out, pcm, nchannels, i) ==
    IF i > Len(pcm) THEN out
    ELSE MadOutputLoop(out \o SampleBytes(s_mad_scale(pcm[i].l))
                           \o (IF nchannels = 2 THEN SampleBytes(s_mad_scale(pcm[i].r))
                               ELSE << >>),
                       pcm, nchannels, i + 1)

\* s_mad_output(data, header, pcm): out is what buffer->out holds already
s_mad_output(out, pcm, nchannels) == MadOutputLoop(out, pcm, nchannels, 1)

(***************************************************************************)
(* The codec's output read back: a frame of two samples decoded by libmad  *)
(* (codec.fixed, codec.channels) is written by s_mad_output, and           *)
(* s_process_next_sample reads the first sample from the bytes written.    *)
(***************************************************************************)
\* The fixed-point sample that scales to the 16-bit value v.
Fixed(v) == v * 8192

\* 16-bit values: every low byte under the high bytes of HiBytes.
CodecValues == {S16(hi, lo) : hi \in HiBytes, lo \in Byte}

\* Fixed-point samples outside [-1, 1), which s_mad_scale clips.
ClippedFixed == {268435456, 300000000, -268435457, -300000000}

CodecFrames ==
    {<<[l |-> Fixed(v), r |-> Fixed(-v - 1)], [l |-> 0, r |-> 0]>> : v \in CodecValues}
        \cup {<<[l |-> x, r |-> -x], [l |-> 0, r |-> 0]>> : x \in ClippedFixed}

InitCodec ==
    /\ file = GoodFile
    /\ io = "ok"
    /\ codec \in {[ret |-> 0, pcm |-> << >>, fixed |-> f, channels |-> c] :
                      f \in CodecFrames, c \in {1, 2}}
    /\ charSigned \in BOOLEAN
    /\ raw = EmptyRaw
    /\ dst = NullRaw
    /\ Results0

MadOutput ==
    /\ pc = "start"
    /\ codec' = [codec EXCEPT !.pcm = s_mad_output(<< >>, codec.fixed, codec.channels)]
    /\ pc' = "pcm"
    /\ UNCHANGED <<file, io, charSigned, locRes, ftypeRes, statRes, raw, decRes,
                   sampleRes, dst, copyRes, xformVars>>

ReadPcm ==
    /\ pc = "pcm"
    /\ \E g \in Garbage :
          LET r == s_process_next_sample(Uninit(2, g), 0, codec.pcm, 0, Len(codec.pcm),
                                         16, charSigned)
          IN  sampleRes' = [soff0 |-> 0, more |-> r.more, s |-> r.s,
                            soff |-> r.soff, doff |-> r.doff, oob |-> r.oob]
    /\ pc' = "read"
    /\ UNCHANGED <<fileVars, locRes, ftypeRes, statRes, raw, decRes, dst, copyRes,
                   xformVars>>

NextCodec == MadOutput \/ ReadPcm

SpecCodec == InitCodec /\ [][NextCodec]_vars

(***************************************************************************)
(* C24: for every 16-bit sample value v that s_mad_output serialises into  *)
(* two bytes, s_process_next_sample at bit depth 16 reconstructs exactly v *)
(* from those two bytes: the byte order written is the byte order read.    *)
(***************************************************************************)
C24_RoundTrip ==
    (pc = "read" /\ codec.channels = 2 /\ sampleRes.more) =>
        /\ sampleRes.s[1].l = s_mad_scale(codec.fixed[1].l)
        /\ sampleRes.s[1].r = s_mad_scale(codec.fixed[1].r)

\* What is read back is the value with its two bytes exchanged when no byte
\* sign-extends: for v >= 0 with both bytes below 128.
ReadBackSwapped ==
    (/\ pc = "read" /\ codec.channels = 2 /\ sampleRes.more
     /\ codec.pcm[1] < 128 /\ codec.pcm[2] < 128)
        => sampleRes.s[1].l = codec.pcm[1] * 256 + codec.pcm[2]

(***************************************************************************)
(* C25: if s_decode_raw_audio fails on a freshly initialised, empty raw    *)
(* audio, the raw audio is still empty afterwards: stat = {INVALID, 0, 0}, *)
(* samples_length = 0 and no sample buffer; in particular samples_length   *)
(* is never non-zero while the sample buffer is absent.                    *)
(***************************************************************************)
C25_FailedDecodeLeavesEmpty ==
    (pc = "decoded" /\ decRes.ret < 0) =>
        /\ raw.stat = EmptyStat
        /\ raw.samples_length = 0
        /\ ~raw.buf
        /\ raw.samples = << >>

\* The part of it that does hold: a failed decode leaves no sample buffer.
FailedDecodeLeavesNoBuffer ==
    (pc = "decoded" /\ decRes.ret < 0) => (~raw.buf /\ raw.samples = << >>)

\* A failed decode that leaves a length without a buffer.
LengthWithoutBuffer ==
    pc = "decoded" /\ decRes.ret < 0 /\ raw.samples_length # 0 /\ ~raw.buf

(***************************************************************************)
(* spectr.c, main: the window size is selected for the sample count of     *)
(* the decoded audio, and s_stft is called with that window and the        *)
(* overlap (size_t) (0.05 * window).  win.s is raw.samples_length; the     *)
(* widths are small, so that the windows selected are those whose Hann     *)
(* coefficients the model holds.                                           *)
(***************************************************************************)
\* (size_t) (0.05 * ((double) window))
MainOverlap(w) == (5 * w) \div 100

SelectWidths == {1, 2, 3}

InitSelect ==
    /\ raw \in TransformRaws
    /\ win \in {[NoWin EXCEPT !.w = p, !.s = raw.samples_length] : p \in SelectWidths}
    /\ s_get_window_size(win.w, win.s).o <= MaxHannLen
    /\ heap \in {[NoHeap EXCEPT !.zeroNull = z] : z \in BOOLEAN}
    /\ fft \in {[NoFft EXCEPT !.env = e, !.budget = 1] : e \in Envs}
    /\ stft = NoStft
    /\ mono = NoMono
    /\ DecodeUnused

\* r = s_stft(&stft, audio, window, (size_t) (0.05 * ((double) window)));
StftSelected ==
    /\ pc = "window"
    /\ win.ret = 0
    /\ RanStft(s_stft(Start(0), raw, win.o, MainOverlap(win.o)), "s_stft", 0, win.o,
               MainOverlap(win.o))

NextSelect == GetWindowSize \/ GetWindowSizeAttr \/ StftSelected

SpecSelect == InitSelect /\ [][NextSelect]_vars

\* Some value of some frame of the STFT is NaN.
SomeFrameValueIsNaN ==
    \E i \in 1..Len(stft.h.dfts) :
        \E k \in 1..Len(stft.h.dfts[i].vals) : stft.h.dfts[i].vals[k].nan

StftOfSelected == pc = "transform" /\ fft.op = "s_stft" /\ win.written /\ win.w >= 1

(***************************************************************************)
(* C26: for every pixel width p >= 1 and sample count s for which          *)
(* s_get_window_size succeeds, the window w it returns, passed to s_stft   *)
(* with the Hann window, satisfies w - 1 # 0: the division by              *)
(* (window length - 1) in s_hann_function is never a division by zero and  *)
(* no frame value becomes NaN.                                             *)
(***************************************************************************)
C26_HannDivisorNonZero ==
    StftOfSelected => (stft.w - 1 # 0 /\ ~SomeFrameValueIsNaN)

\* The same for the s_get_window_size of spectr/transform/attr.c alone.
HannDivisorNonZeroFixedWindow ==
    (StftOfSelected /\ win.impl = "spectr/transform/attr.c") =>
        (stft.w - 1 # 0 /\ ~SomeFrameValueIsNaN)

StftOverlapTooLarge ==
    /\ pc = "transform" /\ fft.op = "s_stft" /\ fft.k = 0
    /\ IsPow2(stft.w) /\ stft.o >= stft.w

(***************************************************************************)
(* C27: every call s_stft(raw, w, o) with w a power of two and o >= w      *)
(* fails with -EINVAL and computes no frame: it never divides by a zero    *)
(* stride (o = w) and never derives a frame count or a frame offset from   *)
(* the wrapped-around unsigned difference w - o (o > w).                   *)
(***************************************************************************)
C27_OverlapRejected ==
    StftOverlapTooLarge => (fft.ret = -EINVAL /\ ~fft.crashed /\ stft.h = NullStft)

\* What the calls do instead: with o = w the division by w - o = 0 traps or
\* yields no frame, with o > w the wrapped-around stride yields no frame;
\* a call that does not trap returns 0 with an empty result, or -ENOMEM
\* where malloc(0) returns NULL.
OverlapTooLargeOutcome ==
    StftOverlapTooLarge =>
        /\ fft.crashed <=> (stft.o = stft.w /\ fft.env.divTraps)
        /\ ~fft.crashed => fft.ret = (IF heap.zeroNull THEN -ENOMEM ELSE 0)
        /\ (~fft.crashed /\ fft.ret = 0) => (stft.h.length = 0 /\ stft.h.window = stft.w)
        /\ fft.reads = {}

(***************************************************************************)
(* C28: for every file of at least 10 bytes, every byte index the locator  *)
(* reads is smaller than the file size: the test at the candidate offset,  *)
(* every iteration of the linear scan (offsets 0 .. size - 2) and the      *)
(* final verification read off and off + 1 with off + 1 <= size - 1.       *)
(***************************************************************************)
C28_LocatorReadsInBounds ==
    (Located /\ Len(file) >= 10) =>
        /\ \A i \in locRes.reads : i < Len(file)
        /\ locRes.ret \in {0, -EINVAL} => 0 \in locRes.reads
        /\ locRes.ret = 0 => {locRes.o, locRes.o + 1} \subseteq locRes.reads

\* The scan reads the last byte of the file: the frame sync is at size - 2.
C28_Witness ==
    /\ Located
    /\ Len(file) = MaxFileLen
    /\ locRes.ret = 0
    /\ locRes.o + 2 = Len(file)
    /\ (Len(file) - 1) \in locRes.reads
    /\ locRes.reads = 0..(Len(file) - 1)

\* The sum of the mono samples of src at the indices o .. o + n - 1.
RECURSIVE MonoSum(_, _, _)
MonoSum(src, o, n) ==
    IF n = 0 THEN 0
    ELSE s_mono_sample(src[o + n]) + MonoSum(src, o, n - 1)

UnwindowedTransform ==
    /\ pc = "transform" /\ fft.op \in {"s_fft", "s_fft_part"}
    /\ fft.wfn = "NULL"
    /\ fft.ret = 0 /\ ~fft.crashed
    /\ fft.o + fft.l <= raw.samples_length

(***************************************************************************)
(* C29: for every power-of-two N and every input, bin 0 of the unwindowed  *)
(* transform has a real part exactly equal to the integer sum of the N     *)
(* mono samples and an imaginary part of exactly 0; for N = 1 the single   *)
(* output value is the mono sample itself with zero imaginary part.        *)
(* Exactly: the value is the sum, and it carries no deviation from M_PI    *)
(* (the factor of bin 0 is cos(-0.0) + sin(-0.0) j = 1 at every level).    *)
(***************************************************************************)
C29_BinZeroIsSum ==
    UnwindowedTransform =>
        /\ fft.dft.length = fft.l
        /\ fft.dft.vals[1].v = RealValue(4 * MonoSum(raw.samples, fft.o, fft.l)).v
        /\ fft.dft.vals[1].d = Zero8
        /\ ~fft.dft.vals[1].nan
        /\ fft.l = 1 =>
              fft.dft.vals = <<RealValue(4 * s_mono_sample(raw.samples[fft.o + 1]))>>

\* The ramp -8 .. 7 sums to -8.
C29_Witness ==
    /\ UnwindowedTransform
    /\ fft.op = "s_fft"
    /\ raw.samples = Ramp(-8, 16)
    /\ MonoSum(raw.samples, 0, 16) = -8
    /\ fft.dft.vals[1] = RealValue(-32)

\* A single sample whose channels differ: the output is their average.
SingleSampleTransformed ==
    /\ UnwindowedTransform
    /\ fft.l = 1
    /\ raw.samples[fft.o + 1] = [l |-> 1, r |-> 2]
    /\ fft.dft.vals = <<RealValue(4)>>

(***************************************************************************)
(* C30: on every return path of the locator (open failure, fstat failure,  *)
(* file too short, mmap failure, no sync pattern found, success) the file  *)
(* descriptor is closed exactly once if it was opened, the mapping is      *)
(* unmapped exactly once if it was created, and the output offset is       *)
(* written only on the success path.                                       *)
(***************************************************************************)
C30_LocatorReleases ==
    pc # "start" =>
        /\ locRes.opened <=> io # "open_fails"
        /\ locRes.mapped <=> (io = "ok" /\ Len(file) >= MinFileSize)
        /\ locRes.closes = (IF locRes.opened THEN 1 ELSE 0)
        /\ locRes.unmaps = (IF locRes.mapped THEN 1 ELSE 0)
        /\ locRes.written <=> locRes.ret = 0

\* No sync pattern in a mapped file: unmapped, closed, nothing written.
C30_Witness ==
    /\ pc # "start"
    /\ locRes.ret = -EINVAL
    /\ locRes.opened /\ locRes.mapped
    /\ locRes.unmaps = 1 /\ locRes.closes = 1
    /\ ~locRes.written

====
